---- MODULE Spec2Model ----
(***************************************************************************)
(* Model of the vehicles edge function (src/unnamed/part_006): VIN decode, *)
(* VIN lookup, explicit lookup and the cache-aside list/search handlers.   *)
(* Strings are sequences of one-character strings, so that upper-casing,   *)
(* splitting, trimming, parseInt and ILIKE are computed as the code and    *)
(* the datastore compute them.                                             *)
(***************************************************************************)
EXTENDS Integers, Sequences, FiniteSets, TLC

(***************************************************************************)
(* Bounds of the model                                                     *)
(***************************************************************************)
\* largest number of vehicle_specs rows in a catalog
MaxRows == 2
\* number of leading positions of the base VIN that the inputs vary
MaxVinEdits == 2
\* a new request starts only while the cache holds at most this many entries
MaxCached == 1
\* largest number of tokens of a tokenizer query
MaxTokens == 2
\* rows the longest maintenance schedule holds beyond the limit of an answer
MaxOverLimit == 2
\* largest number of records handed to formatMarketValues on its own
MaxValues == 3
\* number of requests for one cache key that run at the same time
MaxRequests == 2

(***************************************************************************)
(* JavaScript values                                                       *)
(***************************************************************************)
\* null for a string-valued field (no string holds a multi-character element)
Null == <<"NULL">>
\* number | null is a sequence: <<>> is null (or NaN), <<n>> is the number n
NoNum == <<>>
Num(n) == <<n>>

Lower26 == <<"a","b","c","d","e","f","g","h","i","j","k","l","m",
             "n","o","p","q","r","s","t","u","v","w","x","y","z">>
Upper26 == <<"A","B","C","D","E","F","G","H","I","J","K","L","M",
             "N","O","P","Q","R","S","T","U","V","W","X","Y","Z">>
Digits10 == <<"0","1","2","3","4","5","6","7","8","9">>

Range(s) == {s[i] : i \in DOMAIN s}
IndexIn(c, s) == CHOOSE i \in DOMAIN s : s[i] = c

\* String.prototype.toUpperCase / toLowerCase, character by character
ToUpperCh(c) == IF c \in Range(Lower26) THEN Upper26[IndexIn(c, Lower26)] ELSE c
ToLowerCh(c) == IF c \in Range(Upper26) THEN Lower26[IndexIn(c, Upper26)] ELSE c
toUpperCase(s) == [i \in DOMAIN s |-> ToUpperCh(s[i])]
toLowerCase(s) == [i \in DOMAIN s |-> ToLowerCh(s[i])]

IsSpace(c) == c \in {" ", "\t", "\n"}

\* String.prototype.trim: drop leading and trailing whitespace
RECURSIVE TrimLeft(_)
TrimLeft(s) == IF s # <<>> /\ IsSpace(Head(s)) THEN TrimLeft(Tail(s)) ELSE s
RECURSIVE TrimRight(_)
TrimRight(s) ==
  IF s # <<>> /\ IsSpace(s[Len(s)]) THEN TrimRight(SubSeq(s, 1, Len(s) - 1)) ELSE s
trim(s) == TrimRight(TrimLeft(s))

\* s.split(sep)[0]: the text before the first occurrence of the character sep
RECURSIVE SplitFirst(_, _)
SplitFirst(s, sep) ==
  IF s = <<>> \/ Head(s) = sep THEN <<>>
  ELSE <<Head(s)>> \o SplitFirst(Tail(s), sep)

\* s.replace(/-/g, '%')
ReplaceAll(s, from, to) == [i \in DOMAIN s |-> IF s[i] = from THEN to ELSE s[i]]

\* the value of the longest prefix of decimal digits of s (0 when there is none)
RECURSIVE DigitsValue(_, _)
DigitsValue(s, acc) ==
  IF s = <<>> \/ Head(s) \notin Range(Digits10) THEN acc
  ELSE DigitsValue(Tail(s), acc * 10 + (IndexIn(Head(s), Digits10) - 1))

\* the value of the longest prefix of hexadecimal digits of s
HexDigits == Digits10 \o <<"a", "b", "c", "d", "e", "f">>
IsHexDigit(c) == ToLowerCh(c) \in Range(HexDigits)
RECURSIVE HexValue(_, _)
HexValue(s, acc) ==
  IF s = <<>> \/ ~IsHexDigit(Head(s)) THEN acc
  ELSE HexValue(Tail(s), acc * 16 + (IndexIn(ToLowerCh(Head(s)), HexDigits) - 1))

\* parseInt(s): skip leading whitespace, optional sign, then the longest
\* prefix of digits (hexadecimal digits after 0x); NaN (NoNum here) when no
\* digit follows
parseInt(s) ==
  LET t == TrimLeft(s)
      neg == t # <<>> /\ Head(t) = "-"
      u == IF t # <<>> /\ Head(t) \in {"-", "+"} THEN Tail(t) ELSE t
      hex == Len(u) >= 2 /\ u[1] = "0" /\ u[2] \in {"x", "X"}
      v == IF hex THEN HexValue(SubSeq(u, 3, Len(u)), 0) ELSE DigitsValue(u, 0)
  IN IF hex /\ (Len(u) = 2 \/ ~IsHexDigit(u[3])) THEN NoNum
     ELSE IF u = <<>> \/ Head(u) \notin Range(Digits10) THEN NoNum
     ELSE Num(IF neg THEN 0 - v ELSE v)

\* JavaScript truthiness of a string | null
Truthy(s) == s # Null /\ s # <<>>
\* JavaScript truthiness of a number | null
TruthyNum(n) == n # NoNum /\ n[1] # 0

(***************************************************************************)
(* Responses (_shared/response.ts)                                         *)
(***************************************************************************)
successResponse(data) == [status |-> 200, ok |-> TRUE, code |-> "", data |-> data]
errorResponseStatus(code, message, status) ==
  [status |-> status, ok |-> FALSE, code |-> code, data |-> message]
errorResponse(code, message) == errorResponseStatus(code, message, 400)
notFoundResponse(message) == errorResponseStatus("not_found", message, 404)
internalErrorResponse == errorResponseStatus("internal_error", "Internal server error", 500)
NoResponse == [status |-> 0, ok |-> FALSE, code |-> "", data |-> ""]

(***************************************************************************)
(* VIN shape                                                               *)
(***************************************************************************)
VinLength == 17
\* the character class [A-HJ-NPR-Z0-9]
VinCharOkAnyLetter(c) == c \in Range(Upper26) \cup Range(Digits10)
VinCharOk(c) == c \in (Range(Upper26) \ {"I", "O", "Q"}) \cup Range(Digits10)
\* /^[A-HJ-NPR-Z0-9]{17}$/.test(s)
VinRegexTest(s) == Len(s) = VinLength /\ \A i \in DOMAIN s : VinCharOk(s[i])

\* the two validation steps shared by handleVinDecode and handleVinLookup:
\* the error response, or NoResponse when the VIN is accepted
ValidateVin(v) ==
  IF v = <<>> \/ Len(v) # VinLength
  THEN errorResponse("invalid_vin", "VIN must be exactly 17 characters")
  ELSE IF ~VinRegexTest(toUpperCase(v))
  THEN errorResponse("invalid_vin", "VIN contains invalid characters")
  ELSE NoResponse

(***************************************************************************)
(* Text constants of the inputs and of the catalog                         *)
(***************************************************************************)
StrHonda == <<"H","o","n","d","a">>
StrHONDA == <<"H","O","N","D","A">>
StrHondaLower == <<"h","o","n","d","a">>
StrCRV == <<"C","R","-","V">>
StrCRspV == <<"C","R"," ","V">>
StrAccord == <<"A","c","c","o","r","d">>
StrEXL == <<"E","X","-","L">>
StrExlLower == <<"e","x","-","l">>
StrEXLNavi == <<"E","X","-","L"," ","N","a","v","i">>
StrEXLslash == <<"E","X","-","L","/","E","X","-","L"," ","N","a","v","i">>
StrSpEXLslash == <<" ","E","X","-","L"," ","/","L","X">>
StrSlashLX == <<"/","L","X">>
StrLX == <<"L","X">>
StrTouring == <<"T","o","u","r","i","n","g">>
StrEunderL == <<"E","_","-","L">>
StrEXxL == <<"E","X","x","L">>
Str2024 == <<"2","0","2","4">>
Str2024abc == <<"2","0","2","4","a","b","c">>
Str2023 == <<"2","0","2","3">>
StrAbc == <<"a","b","c">>
Str0 == <<"0">>
Str1 == <<"1">>
Str6c11 == <<"6",",","1","1">>
Str4 == <<"4">>
StrSUV == <<"S","U","V">>
StrErrText == <<"b","a","d"," ","V","I","N">>
StrOkText == <<"o","k">>

\* a well-formed VIN
BaseVin == <<"1","H","G","C","M","8","2","6","3","3","A","0","0","4","3","5","2">>

(***************************************************************************)
(* External decode adapter: decodeVinWithNHTSA                             *)
(***************************************************************************)
\* data.Results of the adapter: a flat list of Variable/Value pairs
NhtsaResults(y, mk, md, tr, ec, et) ==
  << [Variable |-> "Error Code", Value |-> ec],
     [Variable |-> "Error Text", Value |-> et],
     [Variable |-> "Make", Value |-> mk],
     [Variable |-> "Model", Value |-> md],
     [Variable |-> "Model Year", Value |-> y],
     [Variable |-> "Trim", Value |-> tr],
     [Variable |-> "Body Class", Value |-> StrSUV],
     [Variable |-> "Doors", Value |-> Str4],
     [Variable |-> "Drive Type", Value |-> <<>>],
     [Variable |-> "Make", Value |-> StrAccord] >>

\* getValue: the Value of the first result with that Variable; a missing
\* result, a null Value and an empty Value all give null
getValue(results, variableName) ==
  IF \E i \in DOMAIN results : results[i].Variable = variableName
  THEN LET i == CHOOSE k \in DOMAIN results :
                  /\ results[k].Variable = variableName
                  /\ \A j \in 1..(k - 1) : results[j].Variable # variableName
       IN IF Truthy(results[i].Value) THEN results[i].Value ELSE Null
  ELSE Null

\* getNumericValue: parseInt of the value, null when absent or not a number
getNumericValue(results, variableName) ==
  LET val == getValue(results, variableName)
  IN IF ~Truthy(val) THEN NoNum ELSE parseInt(val)

\* the DecodedVin built from the adapter's results
DecodedVin(v, results) ==
  [ vin |-> v,
    year |-> getNumericValue(results, "Model Year"),
    make |-> getValue(results, "Make"),
    model |-> getValue(results, "Model"),
    trim |-> getValue(results, "Trim"),
    body_type |-> getValue(results, "Body Class"),
    vehicle_type |-> getValue(results, "Vehicle Type"),
    doors |-> getNumericValue(results, "Doors"),
    engine |-> [ cylinders |-> getNumericValue(results, "Engine Number of Cylinders"),
                 displacement |-> getValue(results, "Displacement (L)"),
                 horsepower |-> getNumericValue(results, "Engine Brake (hp) From"),
                 fuel_type |-> getValue(results, "Fuel Type - Primary") ],
    drivetrain |-> getValue(results, "Drive Type"),
    transmission |-> getValue(results, "Transmission Style"),
    manufacturer |-> getValue(results, "Manufacturer Name"),
    plant_country |-> getValue(results, "Plant Country"),
    plant_city |-> getValue(results, "Plant City"),
    error_code |-> getValue(results, "Error Code"),
    error_text |-> getValue(results, "Error Text") ]

\* what the fetch of the adapter can do: answer 200 with results, answer a
\* non-OK status, or reject (transport failure, unparsable body)
FetchFailures == {"http_error", "network_error", "bad_body"}

\* handleVinDecode after the adapter answered: the data of the response
VinDecodeDataNoWarn(decoded) == decoded
VinDecodeData(decoded) ==
  IF Truthy(decoded.error_code) /\ decoded.error_code # Str0
  THEN [w \in {"warning"} |-> decoded.error_text] @@ decoded
  ELSE decoded

(***************************************************************************)
(* Relational store                                                        *)
(***************************************************************************)
\* LIKE on lower-cased text: % (and PostgREST's alias *) matches any run of
\* characters, _ matches exactly one character
RECURSIVE Like(_, _)
Like(p, s) ==
  IF p = <<>> THEN s = <<>>
  ELSE IF Head(p) \in {"%", "*"}
       THEN Like(Tail(p), s) \/ (s # <<>> /\ Like(p, Tail(s)))
  ELSE IF s = <<>> THEN FALSE
  ELSE IF Head(p) = "_" THEN Like(Tail(p), Tail(s))
  ELSE Head(p) = Head(s) /\ Like(Tail(p), Tail(s))

\* column ILIKE pattern; a NULL column satisfies no condition
ilike(col, pattern) == col # Null /\ Like(toLowerCase(pattern), toLowerCase(col))

\* the rows vehicle_specs can hold
SpecRowPool ==
  { [id |-> "s1", year |-> 2024, make |-> StrHonda, model |-> StrCRV, trim |-> StrEXL,
     sample_vin |-> BaseVin],
    [id |-> "s2", year |-> 2024, make |-> StrHonda, model |-> StrCRV, trim |-> StrLX,
     sample_vin |-> Null],
    [id |-> "s3", year |-> 2024, make |-> StrHonda, model |-> StrCRspV,
     trim |-> StrEXLNavi, sample_vin |-> Null],
    [id |-> "s4", year |-> 2024, make |-> StrHonda, model |-> StrCRV, trim |-> Null,
     sample_vin |-> Null],
    [id |-> "s5", year |-> 2023, make |-> StrHonda, model |-> StrCRV, trim |-> StrEXL,
     sample_vin |-> Null],
    [id |-> "s6", year |-> 2024, make |-> StrHondaLower, model |-> StrCRV,
     trim |-> StrLX, sample_vin |-> Null] }
Catalogs == {c \in SUBSET SpecRowPool : Cardinality(c) <= MaxRows}

\* vehicle_warranties, in storage order
WarrantyTable ==
  << [id |-> "w1", vehicle_spec_id |-> "s1", months |-> 36],
     [id |-> "w2", vehicle_spec_id |-> "s1", months |-> 60],
     [id |-> "w3", vehicle_spec_id |-> "s3", months |-> 36] >>

\* vehicle_market_values, in storage order
MarketTable ==
  << [year |-> 2024, make |-> StrHonda, model |-> StrCRV, trim |-> StrEXL,
      condition |-> "Clean", trade_in_cents |-> 100, private_party_cents |-> 200,
      dealer_retail_cents |-> 300],
     [year |-> 2024, make |-> StrHonda, model |-> StrCRV, trim |-> StrLX,
      condition |-> "Rough", trade_in_cents |-> 0, private_party_cents |-> 20,
      dealer_retail_cents |-> 30],
     [year |-> 2024, make |-> StrHonda, model |-> StrCRV, trim |-> StrEXLNavi,
      condition |-> "Clean", trade_in_cents |-> 110, private_party_cents |-> 210,
      dealer_retail_cents |-> 310] >>

\* vehicle_maintenance_schedules, in storage order
MaintenanceTable ==
  << [year |-> 2024, make |-> StrHonda, model |-> StrCRV, trim |-> StrEXL,
      mileage |-> 30000, service |-> "oil"],
     [year |-> 2024, make |-> StrHonda, model |-> StrCRV, trim |-> StrLX,
      mileage |-> 15000, service |-> "tires"],
     [year |-> 2024, make |-> StrHonda, model |-> StrCRspV, trim |-> StrEXL,
      mileage |-> 7500, service |-> "filter"] >>

\* the first n elements of a sequence (.limit(n))
Take(seq, n) == SubSeq(seq, 1, IF Len(seq) < n THEN Len(seq) ELSE n)

\* .order('mileage', {ascending: true}): stable insertion sort
RECURSIVE InsertByMileage(_, _)
InsertByMileage(r, sorted) ==
  IF sorted = <<>> THEN <<r>>
  ELSE IF r.mileage < Head(sorted).mileage THEN <<r>> \o sorted
  ELSE <<Head(sorted)>> \o InsertByMileage(r, Tail(sorted))
RECURSIVE OrderByMileage(_)
OrderByMileage(seq) ==
  IF seq = <<>> THEN <<>>
  ELSE InsertByMileage(seq[Len(seq)], OrderByMileage(SubSeq(seq, 1, Len(seq) - 1)))

\* the WHERE clause shared by the specs, market-value and maintenance
\* queries: make ILIKE, model ILIKE, year =, and the trim ILIKE when present
YmmtMatch(r, make, modelPattern, year, useTrim, trimPattern) ==
  /\ ilike(r.make, make)
  /\ ilike(r.model, modelPattern)
  /\ r.year = year
  /\ (useTrim => ilike(r.trim, trimPattern))

\* rows of a table (a sequence) that satisfy the WHERE clause, in order
RECURSIVE SelectYmmt(_, _, _, _, _, _)
SelectYmmt(table, make, modelPattern, year, useTrim, trimPattern) ==
  IF table = <<>> THEN <<>>
  ELSE (IF YmmtMatch(Head(table), make, modelPattern, year, useTrim, trimPattern)
        THEN <<Head(table)>> ELSE <<>>)
       \o SelectYmmt(Tail(table), make, modelPattern, year, useTrim, trimPattern)

\* the vehicle_specs rows that satisfy the WHERE clause
SpecsMatching(rows, make, modelPattern, year, useTrim, trimPattern) ==
  {r \in rows : YmmtMatch(r, make, modelPattern, year, useTrim, trimPattern)}

\* .limit(1).single() over a set of matching rows: no row gives null data
\* (error PGRST116), otherwise one of the rows, in no defined order
SingleResults(matching) == IF matching = {} THEN {<<>>} ELSE {<<r>> : r \in matching}

\* vehicle_warranties WHERE vehicle_spec_id = id
RECURSIVE SelectWarranties(_, _)
SelectWarranties(table, id) ==
  IF table = <<>> THEN <<>>
  ELSE (IF Head(table).vehicle_spec_id = id THEN <<Head(table)>> ELSE <<>>)
       \o SelectWarranties(Tail(table), id)

MarketLimit == 20
MaintenanceLimit == 50

(***************************************************************************)
(* Helpers of the handlers                                                 *)
(***************************************************************************)
\* the map that keeps the first record of a condition
formatMarketValuesFirstWins(values) ==
  [c \in {values[i].condition : i \in DOMAIN values} |->
     LET first == CHOOSE i \in DOMAIN values :
                    /\ values[i].condition = c
                    /\ \A j \in DOMAIN values : values[j].condition = c => i <= j
     IN [condition |-> values[first].condition,
         trade_in_cents |-> values[first].trade_in_cents,
         private_party_cents |-> values[first].private_party_cents,
         dealer_retail_cents |-> values[first].dealer_retail_cents]]

\* formatMarketValues: one entry per condition, the later record wins
formatMarketValues(values) ==
  [c \in {values[i].condition : i \in DOMAIN values} |->
     LET last == CHOOSE i \in DOMAIN values :
                   /\ values[i].condition = c
                   /\ \A j \in DOMAIN values : values[j].condition = c => j <= i
     IN [condition |-> values[last].condition,
         trade_in_cents |-> values[last].trade_in_cents,
         private_party_cents |-> values[last].private_party_cents,
         dealer_retail_cents |-> values[last].dealer_retail_cents]]

\* model.replace(/-/g, '%')
ModelPattern(model) == ReplaceAll(model, "-", "%")

\* handleVinLookup: trimParts[0].trim() of decoded.trim.split('/')
PrimaryTrim(t) == trim(SplitFirst(t, "/"))

\* `${primaryTrim}%`
PrefixPattern(t) == t \o <<"%">>

(***************************************************************************)
(* State                                                                   *)
(***************************************************************************)
VARIABLES
  handler,       \* the handler serving the request
  pc,            \* the handler's position (the await it is suspended at)
  req,           \* the request's inputs
  db,            \* the rows of vehicle_specs
  views,         \* the rows the materialized views were last refreshed from
  decoded,       \* handleVinLookup / handleVinDecode: decoded
  specs,         \* the resolved spec row: <<>> (null) or <<row>>
  warranties,    \* the warranty rows fetched
  marketValues,  \* the market-value rows fetched
  maintenance,   \* the maintenance rows fetched
  fetchCalls,    \* calls made to the external decode service
  upstream,      \* how the external call ended: "none", "ok" or a failure
  queries,       \* the datastore queries issued, in order
  subFailed,     \* the queries the datastore answered with an error
  resp,          \* the response, NoResponse until the handler returns
  cache,         \* the key-value store: a set of [key, value, ttl] entries
  cacheOps,      \* the cache operations of the request, in order
  env,           \* the failures the request meets in the cache and the datastore
  result,        \* the list a cached handler computed
  populated,     \* per cache key, the payload answered by the request that wrote it
  events,        \* Deno.serve: the calls the request pipeline has made, in order
  usageLog,      \* Deno.serve: the logUsage call: "none", then a record with its state
  returned       \* Deno.serve: the response handed to the client

vars == <<handler, pc, req, db, views, decoded, specs, warranties, marketValues,
          maintenance, fetchCalls, upstream, queries, subFailed, resp,
          cache, cacheOps, env, result, populated, events, usageLog, returned>>

cacheVars == <<cache, cacheOps, env, result, populated>>
routerVars == <<events, usageLog, returned>>
resolveVars == <<decoded, specs, warranties, marketValues, maintenance, fetchCalls,
                 upstream, subFailed>>

\* the request has met neither the cache nor the datastore yet
EnvUnset ==
  [read |-> "unset", view |-> "unset", table |-> "unset", write |-> "unset",
   rank |-> "unset"]

\* logUsage has not been called
NoUsageLog == [state |-> "none", fate |-> "none", endpoint |-> "", status |-> 0]

\* no key has been written yet
NoPopulated == [k \in {} |-> <<>>]

locals == <<decoded, specs, warranties, marketValues, maintenance>>

NoDecoded == DecodedVin(<<>>, <<>>)

(***************************************************************************)
(* Inputs                                                                  *)
(***************************************************************************)
Subst(s, p, c) == [i \in DOMAIN s |-> IF i = p THEN c ELSE s[i]]
VinEditChars == {"A", "a", "I", "i", "O", "o", "Q", "q", "-", " ", "Z", "9"}
VinEditPositions == (1..MaxVinEdits) \cup {VinLength}
VinInputs ==
  {Subst(BaseVin, p, c) : p \in VinEditPositions, c \in VinEditChars}
  \cup {SubSeq(BaseVin, 1, n) : n \in 0..VinLength}
  \cup {BaseVin \o <<c>> : c \in VinEditChars}
  \cup {Subst(SubSeq(BaseVin, 1, VinLength - 1), p, c) :
          p \in 1..MaxVinEdits, c \in VinEditChars}

VinReq(v) == [vin |-> v, year |-> Null, make |-> Null, model |-> Null, trim |-> Null]

TrimInputs == {StrEXLslash, StrSpEXLslash, StrSlashLX, StrExlLower, StrTouring,
               StrEunderL, StrLX}

LookupReqs ==
  { [vin |-> <<>>, year |-> y, make |-> mk, model |-> md, trim |-> tr] :
      y \in {Null, Str2024, Str2023, StrAbc, Str2024abc},
      mk \in {Null, StrHONDA},
      md \in {Null, <<>>, StrCRV},
      tr \in {Null, <<>>} \cup TrimInputs }

\* what the adapter can answer: every error code with one vehicle, and every
\* vehicle descriptor with error code "0"
NhtsaPool ==
  { NhtsaResults(Str2024, StrHONDA, StrCRV, StrEXLslash, ec, et) :
      ec \in {Null, <<>>, Str0, Str1, Str6c11}, et \in {Null, StrErrText} }
  \cup
  { NhtsaResults(y, mk, md, tr, Str0, StrOkText) :
      y \in {Str2024, Str0, StrAbc, Null}, mk \in {StrHONDA, <<>>},
      md \in {StrCRV, Null}, tr \in {Null} \cup TrimInputs }

DefaultCatalog == {r \in SpecRowPool : r.id \in {"s1", "s2"}}

Init ==
  /\ pc = "validate"
  /\ decoded = NoDecoded
  /\ specs = <<>>
  /\ warranties = <<>>
  /\ marketValues = <<>>
  /\ maintenance = <<>>
  /\ fetchCalls = 0
  /\ upstream = "none"
  /\ queries = <<>>
  /\ subFailed = {}
  /\ resp = NoResponse
  /\ cache = {}
  /\ populated = NoPopulated
  /\ events = <<>>
  /\ usageLog = NoUsageLog
  /\ returned = NoResponse
  /\ cacheOps = <<>>
  /\ env = EnvUnset
  /\ result = <<>>
  /\ \/ /\ handler \in {"vinDecode", "vinLookup"}
        /\ req \in {VinReq(v) : v \in VinInputs}
        /\ db = DefaultCatalog
        /\ views = db
     \/ /\ handler = "vinLookup"
        /\ req = VinReq(BaseVin)
        /\ db \in Catalogs
        /\ views = db
     \/ /\ handler = "lookup"
        /\ req \in LookupReqs
        /\ db \in Catalogs
        /\ views = db

(***************************************************************************)
(* handleVinDecode and the head of handleVinLookup                         *)
(***************************************************************************)
\* both handlers: validate the VIN shape, then call the adapter
VinValidate ==
  /\ handler \in {"vinDecode", "vinLookup"}
  /\ pc = "validate"
  /\ IF ValidateVin(req.vin) # NoResponse
     THEN /\ resp' = ValidateVin(req.vin)
          /\ pc' = "done"
          /\ fetchCalls' = fetchCalls
     ELSE /\ resp' = resp
          /\ pc' = "fetch"
          /\ fetchCalls' = fetchCalls + 1
  /\ UNCHANGED <<handler, req, db, views, locals, upstream, queries, subFailed>>
  /\ UNCHANGED <<cacheVars, routerVars>>

\* both handlers: the adapter throws (non-OK status, transport failure,
\* unparsable body); the handler's catch answers internalErrorResponse()
VinFetchFail ==
  /\ handler \in {"vinDecode", "vinLookup"}
  /\ pc = "fetch"
  /\ \E f \in FetchFailures : upstream' = f
  /\ resp' = internalErrorResponse
  /\ pc' = "done"
  /\ UNCHANGED <<handler, req, db, views, locals, fetchCalls, queries, subFailed>>
  /\ UNCHANGED <<cacheVars, routerVars>>

\* handleVinDecode: the adapter answered
VinDecodeFetchOk ==
  /\ handler = "vinDecode"
  /\ pc = "fetch"
  /\ \E results \in NhtsaPool :
       /\ decoded' = DecodedVin(toUpperCase(req.vin), results)
       /\ resp' = successResponse(VinDecodeData(decoded'))
  /\ upstream' = "ok"
  /\ pc' = "done"
  /\ UNCHANGED <<handler, req, db, views, specs, warranties, marketValues, maintenance,
                 fetchCalls, queries, subFailed>>
  /\ UNCHANGED <<cacheVars, routerVars>>

(***************************************************************************)
(* handleVinLookup after the decode                                        *)
(***************************************************************************)
\* primaryTrim of the market-value and maintenance part: null without a trim
VinPrimaryTrim(d) == IF Truthy(d.trim) THEN PrimaryTrim(d.trim) ELSE Null

\* the trim pattern of the VIN lookup's queries
VinTrimPattern(d) == PrefixPattern(PrimaryTrim(d.trim))

\* what the vehicle_specs query of the VIN lookup can return
VinSpecsQuery(d, rows, useTrim) ==
  SingleResults(SpecsMatching(rows, d.make, ModelPattern(d.model), d.year[1],
                              useTrim, VinTrimPattern(d)))

VinMarketQuery(d, useTrim) ==
  LET rows == SelectYmmt(MarketTable, d.make, ModelPattern(d.model), d.year[1],
                         useTrim, VinTrimPattern(d))
  IN IF useTrim THEN rows ELSE Take(rows, MarketLimit)

VinMaintenanceQuery(d, useTrim) ==
  Take(OrderByMileage(SelectYmmt(MaintenanceTable, d.make, ModelPattern(d.model),
                                 d.year[1], useTrim, VinTrimPattern(d))),
       MaintenanceLimit)

MarketStart(d) == IF Truthy(VinPrimaryTrim(d)) THEN "marketTrim" ELSE "marketNoTrim"
MaintStart(d) == IF Truthy(VinPrimaryTrim(d)) THEN "maintTrim" ELSE "maintNoTrim"

VinLookupResponse(d, sp, w, mv, mt) ==
  successResponse([vin_info |-> d, specs |-> sp, warranty |-> w,
                   market_values |-> formatMarketValues(mv), maintenance |-> mt])

\* the first pc after the decode: the trim-specific query runs only with a trim
VinAfterDecode(d) == IF Truthy(d.trim) THEN "specsTrim" ELSE "specsNoTrim"

\* the pc after the trim-specific specs query
VinAfterSpecsTrimNoRetry(sp) == IF sp = <<>> THEN "marketNoTrim" ELSE "warranty"
VinAfterSpecsTrim(sp) == IF sp = <<>> THEN "specsNoTrim" ELSE "warranty"

\* the adapter answered: decode_failed without year, make or model
VinLookupFetchOk ==
  /\ handler = "vinLookup"
  /\ pc = "fetch"
  /\ \E results \in NhtsaPool :
       decoded' = DecodedVin(toUpperCase(req.vin), results)
  /\ upstream' = "ok"
  /\ IF ~TruthyNum(decoded'.year) \/ ~Truthy(decoded'.make) \/ ~Truthy(decoded'.model)
     THEN /\ resp' = errorResponse("decode_failed",
                                   "Could not decode vehicle information from VIN")
          /\ pc' = "done"
     ELSE /\ resp' = resp
          /\ pc' = VinAfterDecode(decoded')
  /\ UNCHANGED <<handler, req, db, views, specs, warranties, marketValues, maintenance,
                 fetchCalls, queries, subFailed>>
  /\ UNCHANGED <<cacheVars, routerVars>>

\* the datastore answers a query with its rows or with an error (data null)
Issue(q, failed) ==
  /\ queries' = Append(queries, q)
  /\ subFailed' = IF failed THEN subFailed \cup {q} ELSE subFailed

VinLookupSpecsTrim ==
  /\ handler = "vinLookup"
  /\ pc = "specsTrim"
  /\ \E failed \in BOOLEAN :
       /\ Issue("specsTrim", failed)
       /\ \E got \in VinSpecsQuery(decoded, db, TRUE) :
            specs' = IF failed THEN <<>> ELSE got
  /\ pc' = VinAfterSpecsTrim(specs')
  /\ UNCHANGED <<handler, req, db, views, decoded, warranties, marketValues, maintenance,
                 fetchCalls, upstream, resp>>
  /\ UNCHANGED <<cacheVars, routerVars>>

VinLookupSpecsNoTrim ==
  /\ handler = "vinLookup"
  /\ pc = "specsNoTrim"
  /\ \E failed \in BOOLEAN :
       /\ Issue("specsNoTrim", failed)
       /\ \E got \in VinSpecsQuery(decoded, db, FALSE) :
            specs' = IF failed THEN <<>> ELSE got
  /\ pc' = IF specs' # <<>> THEN "warranty" ELSE MarketStart(decoded)
  /\ UNCHANGED <<handler, req, db, views, decoded, warranties, marketValues, maintenance,
                 fetchCalls, upstream, resp>>
  /\ UNCHANGED <<cacheVars, routerVars>>

VinLookupWarranty ==
  /\ handler = "vinLookup"
  /\ pc = "warranty"
  /\ \E failed \in BOOLEAN :
       /\ Issue("warranty", failed)
       /\ warranties' = IF failed THEN <<>>
                        ELSE SelectWarranties(WarrantyTable, specs[1].id)
  /\ pc' = MarketStart(decoded)
  /\ UNCHANGED <<handler, req, db, views, decoded, specs, marketValues, maintenance,
                 fetchCalls, upstream, resp>>
  /\ UNCHANGED <<cacheVars, routerVars>>

VinLookupMarketTrim ==
  /\ handler = "vinLookup"
  /\ pc = "marketTrim"
  /\ \E failed \in BOOLEAN :
       /\ Issue("marketTrim", failed)
       /\ marketValues' = IF failed THEN <<>> ELSE VinMarketQuery(decoded, TRUE)
  /\ pc' = IF Len(marketValues') = 0 THEN "marketNoTrim" ELSE MaintStart(decoded)
  /\ UNCHANGED <<handler, req, db, views, decoded, specs, warranties, maintenance,
                 fetchCalls, upstream, resp>>
  /\ UNCHANGED <<cacheVars, routerVars>>

VinLookupMarketNoTrim ==
  /\ handler = "vinLookup"
  /\ pc = "marketNoTrim"
  /\ \E failed \in BOOLEAN :
       /\ Issue("marketNoTrim", failed)
       /\ marketValues' = IF failed THEN <<>> ELSE VinMarketQuery(decoded, FALSE)
  /\ pc' = MaintStart(decoded)
  /\ UNCHANGED <<handler, req, db, views, decoded, specs, warranties, maintenance,
                 fetchCalls, upstream, resp>>
  /\ UNCHANGED <<cacheVars, routerVars>>

VinLookupMaintTrim ==
  /\ handler = "vinLookup"
  /\ pc = "maintTrim"
  /\ \E failed \in BOOLEAN :
       /\ Issue("maintTrim", failed)
       /\ maintenance' = IF failed THEN <<>> ELSE VinMaintenanceQuery(decoded, TRUE)
  /\ IF Len(maintenance') = 0
     THEN pc' = "maintNoTrim" /\ resp' = resp
     ELSE /\ pc' = "done"
          /\ resp' = VinLookupResponse(decoded, specs, warranties, marketValues,
                                       maintenance')
  /\ UNCHANGED <<handler, req, db, views, decoded, specs, warranties, marketValues,
                 fetchCalls, upstream>>
  /\ UNCHANGED <<cacheVars, routerVars>>

VinLookupMaintNoTrim ==
  /\ handler = "vinLookup"
  /\ pc = "maintNoTrim"
  /\ \E failed \in BOOLEAN :
       /\ Issue("maintNoTrim", failed)
       /\ maintenance' = IF failed THEN <<>> ELSE VinMaintenanceQuery(decoded, FALSE)
  /\ pc' = "done"
  /\ resp' = VinLookupResponse(decoded, specs, warranties, marketValues, maintenance')
  /\ UNCHANGED <<handler, req, db, views, decoded, specs, warranties, marketValues,
                 fetchCalls, upstream>>
  /\ UNCHANGED <<cacheVars, routerVars>>

(***************************************************************************)
(* handleLookup                                                            *)
(***************************************************************************)
\* the parameter checks: the error response, or NoResponse when accepted
LookupValidation(r) ==
  IF ~Truthy(r.year) \/ ~Truthy(r.make) \/ ~Truthy(r.model)
  THEN errorResponse("missing_params", "year, make, and model are required")
  ELSE IF parseInt(r.year) = NoNum
  THEN errorResponse("invalid_params", "year must be a number")
  ELSE NoResponse

\* the trim pattern of the explicit lookup's queries: `${trim}%`
LookupTrimPattern(r) == PrefixPattern(r.trim)

\* what the single vehicle_specs query of the explicit lookup can return
LookupSpecsQuery(r, rows) ==
  SingleResults(SpecsMatching(rows, r.make, ModelPattern(r.model), parseInt(r.year)[1],
                              Truthy(r.trim), LookupTrimPattern(r)))

LookupMarketQuery(r) ==
  SelectYmmt(MarketTable, r.make, ModelPattern(r.model), parseInt(r.year)[1],
             Truthy(r.trim), LookupTrimPattern(r))

LookupMaintenanceQuery(r) ==
  Take(OrderByMileage(SelectYmmt(MaintenanceTable, r.make, ModelPattern(r.model),
                                 parseInt(r.year)[1], Truthy(r.trim),
                                 LookupTrimPattern(r))),
       MaintenanceLimit)

\* the response: not_found when nothing at all was found
LookupResponseSpecsOnly(sp, w, mv, mt) ==
  IF sp = <<>>
  THEN notFoundResponse("No vehicle data found for the specified year, make, model")
  ELSE successResponse([specs |-> sp, warranty |-> w,
                        market_values |-> formatMarketValues(mv), maintenance |-> mt])
LookupResponse(sp, w, mv, mt) ==
  IF sp = <<>> /\ Len(w) = 0 /\ Len(mv) = 0 /\ Len(mt) = 0
  THEN notFoundResponse("No vehicle data found for the specified year, make, model")
  ELSE successResponse([specs |-> sp, warranty |-> w,
                        market_values |-> formatMarketValues(mv), maintenance |-> mt])

LookupValidate ==
  /\ handler = "lookup"
  /\ pc = "validate"
  /\ IF LookupValidation(req) # NoResponse
     THEN resp' = LookupValidation(req) /\ pc' = "done"
     ELSE resp' = resp /\ pc' = "lkSpecs"
  /\ UNCHANGED <<handler, req, db, views, locals, fetchCalls, upstream, queries, subFailed>>
  /\ UNCHANGED <<cacheVars, routerVars>>

\* the specs query: an error other than "no rows" (PGRST116) is a 500
LookupSpecs ==
  /\ handler = "lookup"
  /\ pc = "lkSpecs"
  /\ \E failed \in BOOLEAN :
       /\ Issue("lkSpecs", failed)
       /\ \E got \in LookupSpecsQuery(req, db) :
            specs' = IF failed THEN <<>> ELSE got
       /\ IF failed
          THEN resp' = internalErrorResponse /\ pc' = "done"
          ELSE resp' = resp /\ pc' = IF specs' # <<>> THEN "lkWarranty" ELSE "lkMarket"
  /\ UNCHANGED <<handler, req, db, views, decoded, warranties, marketValues, maintenance,
                 fetchCalls, upstream>>
  /\ UNCHANGED <<cacheVars, routerVars>>

LookupWarranty ==
  /\ handler = "lookup"
  /\ pc = "lkWarranty"
  /\ \E failed \in BOOLEAN :
       /\ Issue("lkWarranty", failed)
       /\ warranties' = IF failed THEN <<>>
                        ELSE SelectWarranties(WarrantyTable, specs[1].id)
  /\ pc' = "lkMarket"
  /\ UNCHANGED <<handler, req, db, views, decoded, specs, marketValues, maintenance,
                 fetchCalls, upstream, resp>>
  /\ UNCHANGED <<cacheVars, routerVars>>

LookupMarket ==
  /\ handler = "lookup"
  /\ pc = "lkMarket"
  /\ \E failed \in BOOLEAN :
       /\ Issue("lkMarket", failed)
       /\ marketValues' = IF failed THEN <<>> ELSE LookupMarketQuery(req)
  /\ pc' = "lkMaint"
  /\ UNCHANGED <<handler, req, db, views, decoded, specs, warranties, maintenance,
                 fetchCalls, upstream, resp>>
  /\ UNCHANGED <<cacheVars, routerVars>>

LookupMaintenance ==
  /\ handler = "lookup"
  /\ pc = "lkMaint"
  /\ \E failed \in BOOLEAN :
       /\ Issue("lkMaint", failed)
       /\ maintenance' = IF failed THEN <<>> ELSE LookupMaintenanceQuery(req)
  /\ pc' = "done"
  /\ resp' = LookupResponse(specs, warranties, marketValues, maintenance')
  /\ UNCHANGED <<handler, req, db, views, decoded, specs, warranties, marketValues,
                 fetchCalls, upstream>>
  /\ UNCHANGED <<cacheVars, routerVars>>

(***************************************************************************)
(* Specification of the resolution handlers                                *)
(***************************************************************************)
Next ==
  \/ VinValidate
  \/ VinFetchFail
  \/ VinDecodeFetchOk
  \/ VinLookupFetchOk
  \/ VinLookupSpecsTrim
  \/ VinLookupSpecsNoTrim
  \/ VinLookupWarranty
  \/ VinLookupMarketTrim
  \/ VinLookupMarketNoTrim
  \/ VinLookupMaintTrim
  \/ VinLookupMaintNoTrim
  \/ LookupValidate
  \/ LookupSpecs
  \/ LookupWarranty
  \/ LookupMarket
  \/ LookupMaintenance

Spec == Init /\ [][Next]_vars

(***************************************************************************)
(* Text order, number formatting and JSON                                  *)
(***************************************************************************)
\* the characters of the model in UTF-16 code unit order
CharOrder ==
  <<" ", "\"", "%", "*", ",", "-", "/">> \o Digits10 \o <<":">> \o Upper26
  \o <<"[", "\\", "]", "_">> \o Lower26 \o <<"{", "}">>
CharCode(c) == IndexIn(c, CharOrder)

\* a < b in code unit order (the order of Array.prototype.sort on strings)
RECURSIVE StrLess(_, _)
StrLess(a, b) ==
  IF b = <<>> THEN FALSE
  ELSE IF a = <<>> THEN TRUE
  ELSE IF Head(a) = Head(b) THEN StrLess(Tail(a), Tail(b))
  ELSE CharCode(Head(a)) < CharCode(Head(b))

\* [...new Set(list)].sort(): the distinct strings in ascending order
RECURSIVE SortStrings(_)
SortStrings(S) ==
  IF S = {} THEN <<>>
  ELSE LET m == CHOOSE x \in S : \A y \in S : y = x \/ StrLess(x, y)
       IN <<m>> \o SortStrings(S \ {m})

\* the distinct numbers in descending order
RECURSIVE SortDesc(_)
SortDesc(S) ==
  IF S = {} THEN <<>>
  ELSE LET m == CHOOSE x \in S : \A y \in S : y <= x
       IN <<m>> \o SortDesc(S \ {m})

\* String(n) for an integer
RECURSIVE NatToStr(_)
NatToStr(n) ==
  IF n < 10 THEN <<Digits10[n + 1]>>
  ELSE NatToStr(n \div 10) \o <<Digits10[(n % 10) + 1]>>
NumToStr(n) == IF n < 0 THEN <<"-">> \o NatToStr(0 - n) ELSE NatToStr(n)

\* the elements of a list joined by commas
RECURSIVE JoinComma(_)
JoinComma(parts) ==
  IF parts = <<>> THEN <<>>
  ELSE IF Len(parts) = 1 THEN parts[1]
  ELSE parts[1] \o <<",">> \o JoinComma(Tail(parts))

\* JSON.stringify of a string: quotes, with " and \ escaped
RECURSIVE JsonEscape(_)
JsonEscape(s) ==
  IF s = <<>> THEN <<>>
  ELSE (IF Head(s) \in {"\"", "\\"} THEN <<"\\", Head(s)>> ELSE <<Head(s)>>)
       \o JsonEscape(Tail(s))
JsonString(s) == <<"\"">> \o JsonEscape(s) \o <<"\"">>
JsonStringOrNullAsEmpty(s) == IF s = Null THEN JsonString(<<>>) ELSE JsonString(s)
JsonStringOrNull(s) == IF s = Null THEN <<"n","u","l","l">> ELSE JsonString(s)

\* JSON.stringify of string[] and of number[]
StringifyStrings(list) ==
  <<"[">> \o JoinComma([i \in DOMAIN list |-> JsonString(list[i])]) \o <<"]">>
StringifyNumbers(list) ==
  <<"[">> \o JoinComma([i \in DOMAIN list |-> NumToStr(list[i])]) \o <<"]">>

\* JSON.stringify of one search result and of the list of results
StringifySearchRecord(r) ==
  <<"{">> \o JsonString(<<"y","e","a","r">>) \o <<":">> \o NumToStr(r.year)
  \o <<",">> \o JsonString(<<"m","a","k","e">>) \o <<":">> \o JsonString(r.make)
  \o <<",">> \o JsonString(<<"m","o","d","e","l">>) \o <<":">> \o JsonString(r.model)
  \o <<",">> \o JsonString(<<"d","i","s","p","l","a","y","_","t","e","x","t">>)
  \o <<":">> \o JsonString(r.display_text)
  \o <<",">> \o JsonString(<<"s","a","m","p","l","e","_","v","i","n">>)
  \o <<":">> \o JsonStringOrNull(r.sample_vin) \o <<"}">>
StringifySearch(list) ==
  <<"[">> \o JoinComma([i \in DOMAIN list |-> StringifySearchRecord(list[i])]) \o <<"]">>

\* the field a JSON object key names
KeyName(k) ==
  CASE k = <<"y","e","a","r">> -> "year"
    [] k = <<"m","a","k","e">> -> "make"
    [] k = <<"m","o","d","e","l">> -> "model"
    [] k = <<"d","i","s","p","l","a","y","_","t","e","x","t">> -> "display_text"
    [] k = <<"s","a","m","p","l","e","_","v","i","n">> -> "sample_vin"

\* JSON.parse: each parser returns the value read and the text left
RECURSIVE ParseString(_, _)
ParseString(t, acc) ==
  IF Head(t) = "\"" THEN [val |-> acc, rest |-> Tail(t)]
  ELSE IF Head(t) = "\\" THEN ParseString(Tail(Tail(t)), Append(acc, t[2]))
  ELSE ParseString(Tail(t), Append(acc, Head(t)))

RECURSIVE ParseDigits(_, _)
ParseDigits(t, acc) ==
  IF t = <<>> \/ Head(t) \notin Range(Digits10) THEN [val |-> acc, rest |-> t]
  ELSE ParseDigits(Tail(t), acc * 10 + (IndexIn(Head(t), Digits10) - 1))
ParseNumber(t) ==
  IF Head(t) = "-"
  THEN [val |-> 0 - ParseDigits(Tail(t), 0).val, rest |-> ParseDigits(Tail(t), 0).rest]
  ELSE ParseDigits(t, 0)

RECURSIVE ParseValue(_)
RECURSIVE ParseArray(_, _)
RECURSIVE ParseObject(_, _)
ParseValue(t) ==
  IF Head(t) = "\"" THEN ParseString(Tail(t), <<>>)
  ELSE IF Head(t) = "[" THEN ParseArray(Tail(t), <<>>)
  ELSE IF Head(t) = "{" THEN ParseObject(Tail(t), <<>>)
  ELSE IF Head(t) = "n" THEN [val |-> Null, rest |-> SubSeq(t, 5, Len(t))]
  ELSE ParseNumber(t)
ParseArray(t, acc) ==
  IF Head(t) = "]" THEN [val |-> acc, rest |-> Tail(t)]
  ELSE IF Head(t) = "," THEN ParseArray(Tail(t), acc)
  ELSE LET r == ParseValue(t) IN ParseArray(r.rest, Append(acc, r.val))
\* acc holds the <<key, value>> pairs read so far
ParseObject(t, acc) ==
  IF Head(t) = "}"
  THEN [val |-> [f \in {acc[i][1] : i \in DOMAIN acc} |->
                   acc[CHOOSE i \in DOMAIN acc :
                         /\ acc[i][1] = f
                         /\ \A j \in DOMAIN acc : acc[j][1] = f => j <= i][2]],
        rest |-> Tail(t)]
  ELSE IF Head(t) = "," THEN ParseObject(Tail(t), acc)
  ELSE LET k == ParseString(Tail(t), <<>>)
           v == ParseValue(Tail(k.rest))
       IN ParseObject(v.rest, Append(acc, <<KeyName(k.val), v.val>>))
JsonParse(text) == ParseValue(text).val

(***************************************************************************)
(* Properties of the resolution handlers                                   *)
(***************************************************************************)
\* the 33 characters a VIN may hold: letters without I, O, Q, and digits
VinAlphabet ==
  {"A","B","C","D","E","F","G","H","J","K","L","M","N","P","R","S","T","U","V",
   "W","X","Y","Z","0","1","2","3","4","5","6","7","8","9"}
WellFormedVin(v) ==
  Len(toUpperCase(v)) = 17 /\ \A i \in DOMAIN v : toUpperCase(v)[i] \in VinAlphabet
IsVinHandler == handler \in {"vinDecode", "vinLookup"}

\* C1: a VIN that does not match [A-HJ-NPR-Z0-9]{17} after upper-casing is
\* answered invalid_vin by both VIN endpoints, and the external decode
\* service is never called for it
C1_InvalidVinRejected ==
  (IsVinHandler /\ ~WellFormedVin(req.vin)) =>
     /\ fetchCalls = 0
     /\ upstream = "none"
     /\ pc \in {"validate", "done"}
     /\ pc = "done" => (resp.code = "invalid_vin" /\ ~resp.ok)

\* C1 witness: the full lookup rejected a 17-character VIN holding the letter i
C1_Witness ==
  /\ handler = "vinLookup"
  /\ pc = "done"
  /\ Len(req.vin) = 17
  /\ \E i \in DOMAIN req.vin : req.vin[i] = "i"
  /\ resp.code = "invalid_vin"
  /\ fetchCalls = 0

\* the trim-specific specs query of the VIN lookup found nothing
VinTrimQueryEmpty ==
  "specsTrim" \in subFailed \/ VinSpecsQuery(decoded, db, TRUE) = {<<>>}
VinNoTrimQueryEmpty ==
  "specsNoTrim" \in subFailed \/ VinSpecsQuery(decoded, db, FALSE) = {<<>>}
VinDecodedUsable ==
  /\ handler = "vinLookup"
  /\ upstream = "ok"
  /\ TruthyNum(decoded.year) /\ Truthy(decoded.make) /\ Truthy(decoded.model)

\* C2: in the VIN lookup, with a decoded trim, a trim-specific specs query
\* that yields no row or an error is followed by the specs query without the
\* trim condition; the request never fails for lack of a match, and with no
\* match at all the response is a success whose specs field is null
C2_TrimRetryNeverRaises ==
  VinDecodedUsable =>
     /\ (Truthy(decoded.trim) /\ queries # <<>>) => queries[1] = "specsTrim"
     /\ (queries # <<>> /\ queries[1] = "specsTrim" /\ VinTrimQueryEmpty /\ Len(queries) >= 2)
          => queries[2] = "specsNoTrim"
     /\ (queries = <<"specsTrim">> /\ VinTrimQueryEmpty) => pc = "specsNoTrim"
     /\ pc = "done" =>
          /\ resp.ok /\ resp.status = 200
          /\ (VinNoTrimQueryEmpty /\ (Truthy(decoded.trim) => VinTrimQueryEmpty))
               => resp.data.specs = <<>>

\* C2 witness: both strategies ran, nothing matched, the answer is a success
C2_Witness ==
  /\ handler = "vinLookup"
  /\ pc = "done"
  /\ Len(queries) >= 2 /\ queries[1] = "specsTrim" /\ queries[2] = "specsNoTrim"
  /\ subFailed = {}
  /\ resp.ok
  /\ resp.data.specs = <<>>

\* case-insensitive "starts with"
StartsWithCI(text, prefix) ==
  /\ text # Null
  /\ Len(text) >= Len(prefix)
  /\ toLowerCase(SubSeq(text, 1, Len(prefix))) = toLowerCase(prefix)
ExpectedPrimaryTrim(t) == trim(SplitFirst(t, "/"))

LookupAccepted == handler = "lookup" /\ LookupValidation(req) = NoResponse
LookupYmmRows ==
  {r \in db : /\ ilike(r.make, req.make)
              /\ ilike(r.model, ModelPattern(req.model))
              /\ r.year = parseInt(req.year)[1]}

\* C3 as claimed: the explicit lookup, given a trim that no row matches by
\* prefix while some row matches year, make and model, resolves to such a
\* trim-agnostic match
C3_LookupFallsBackAsClaimed ==
  ( /\ LookupAccepted
    /\ pc = "done"
    /\ subFailed = {}
    /\ Truthy(req.trim)
    /\ ~\E r \in LookupYmmRows : StartsWithCI(r.trim, ExpectedPrimaryTrim(req.trim))
    /\ LookupYmmRows # {} )
  => /\ resp.ok
     /\ resp.data.specs # <<>>
     /\ resp.data.specs[1] \in LookupYmmRows

\* C4 as claimed: with a trim holding '/', in both lookups the rows that
\* satisfy the trim condition are those whose trim starts, case-insensitively,
\* with the trimmed text before the first '/'
C4_PrimaryTrimAsClaimed ==
  /\ ( /\ VinDecodedUsable
       /\ queries = <<"specsTrim">>
       /\ subFailed = {}
       /\ "/" \in Range(decoded.trim) )
     => specs \in SingleResults(
          {r \in db : /\ ilike(r.make, decoded.make)
                      /\ ilike(r.model, ModelPattern(decoded.model))
                      /\ r.year = decoded.year[1]
                      /\ StartsWithCI(r.trim, ExpectedPrimaryTrim(decoded.trim))})
  /\ ( /\ LookupAccepted
       /\ queries = <<"lkSpecs">>
       /\ subFailed = {}
       /\ Truthy(req.trim)
       /\ "/" \in Range(req.trim) )
     => specs \in SingleResults(
          {r \in LookupYmmRows : StartsWithCI(r.trim, ExpectedPrimaryTrim(req.trim))})

\* C5: when the adapter answered, the decode endpoint returns a success that
\* carries every decoded field; it adds warning = the adapter's error text
\* exactly when the error code is non-null and not "0"
C5_DecodeWarning ==
  (handler = "vinDecode" /\ pc = "done" /\ upstream = "ok") =>
     /\ resp.ok /\ resp.status = 200
     /\ \A f \in DOMAIN decoded : resp.data[f] = decoded[f]
     /\ IF decoded.error_code # Null /\ decoded.error_code # <<"0">>
        THEN /\ DOMAIN resp.data = DOMAIN decoded \cup {"warning"}
             /\ resp.data.warning = decoded.error_text
        ELSE DOMAIN resp.data = DOMAIN decoded

\* C5 witness: a decode with error code "1" answered with data and a warning
C5_Witness ==
  /\ handler = "vinDecode"
  /\ pc = "done"
  /\ resp.ok
  /\ decoded.error_code = <<"1">>
  /\ "warning" \in DOMAIN resp.data
  /\ resp.data.warning = StrErrText
  /\ resp.data.make = StrHONDA

\* C6 as claimed: a failed external call ends the request with
\* upstream_unavailable, after at most two calls
C6_UpstreamUnavailableAsClaimed ==
  (IsVinHandler /\ pc = "done" /\ upstream \in FetchFailures) =>
     /\ resp.code = "upstream_unavailable"
     /\ fetchCalls <= 2

\* what each dependent sub-lookup of the VIN lookup returns, from the tables
\* and from the failures of its own queries alone
ExpVinWarranty ==
  IF specs = <<>> \/ "warranty" \in subFailed THEN <<>>
  ELSE SelectWarranties(WarrantyTable, specs[1].id)
ExpVinMarket ==
  LET first == IF Truthy(VinPrimaryTrim(decoded)) /\ "marketTrim" \notin subFailed
               THEN VinMarketQuery(decoded, TRUE) ELSE <<>>
  IN IF first # <<>> THEN first
     ELSE IF "marketNoTrim" \in subFailed THEN <<>>
     ELSE VinMarketQuery(decoded, FALSE)
ExpVinMaintenance ==
  LET first == IF Truthy(VinPrimaryTrim(decoded)) /\ "maintTrim" \notin subFailed
               THEN VinMaintenanceQuery(decoded, TRUE) ELSE <<>>
  IN IF first # <<>> THEN first
     ELSE IF "maintNoTrim" \in subFailed THEN <<>>
     ELSE VinMaintenanceQuery(decoded, FALSE)

\* the same for the explicit lookup
ExpLookupWarranty ==
  IF specs = <<>> \/ "lkWarranty" \in subFailed THEN <<>>
  ELSE SelectWarranties(WarrantyTable, specs[1].id)
ExpLookupMarket == IF "lkMarket" \in subFailed THEN <<>> ELSE LookupMarketQuery(req)
ExpLookupMaintenance ==
  IF "lkMaint" \in subFailed THEN <<>> ELSE LookupMaintenanceQuery(req)

VinLookupAnswered == VinDecodedUsable /\ pc = "done"
LookupAnswered == LookupAccepted /\ pc = "done" /\ "lkSpecs" \notin subFailed

\* a successful response whose three dependent fields are the given rows
CarriesFields(w, mv, mt) ==
  /\ resp.ok /\ resp.status = 200
  /\ resp.data.specs = specs
  /\ resp.data.warranty = w
  /\ resp.data.market_values = formatMarketValues(mv)
  /\ resp.data.maintenance = mt

\* C7 as claimed: once the spec query completed, the response of both lookups
\* is a success in which each dependent field is what its own sub-lookup
\* returned, empty when that sub-lookup failed or found nothing
C7_AlwaysSuccessAsClaimed ==
  /\ VinLookupAnswered => CarriesFields(ExpVinWarranty, ExpVinMarket, ExpVinMaintenance)
  /\ LookupAnswered =>
       CarriesFields(ExpLookupWarranty, ExpLookupMarket, ExpLookupMaintenance)

\* C7 amended: as claimed, except that the explicit lookup answers not_found
\* (404) when no spec was resolved and all three sub-lookups came back empty
C7_SubLookupsIndependent ==
  /\ VinLookupAnswered => CarriesFields(ExpVinWarranty, ExpVinMarket, ExpVinMaintenance)
  /\ LookupAnswered =>
       IF /\ specs = <<>>
          /\ ExpLookupWarranty = <<>>
          /\ ExpLookupMarket = <<>>
          /\ ExpLookupMaintenance = <<>>
       THEN resp.code = "not_found" /\ resp.status = 404 /\ ~resp.ok
       ELSE CarriesFields(ExpLookupWarranty, ExpLookupMarket, ExpLookupMaintenance)

\* C7 witness: the market-value query of an explicit lookup failed, no spec
\* was resolved, and the answer still carries the maintenance rows
C7_Witness ==
  /\ LookupAnswered
  /\ "lkMarket" \in subFailed
  /\ specs = <<>>
  /\ resp.ok
  /\ DOMAIN resp.data.market_values = {}
  /\ resp.data.warranty = <<>>
  /\ Len(resp.data.maintenance) > 0

(***************************************************************************)
(* Cached handlers: handleYears, handleMakes, handleModels, handleTrims,   *)
(* handleVehicleSearch                                                     *)
(***************************************************************************)
CACHE_TTL_YEARS == 86400
CACHE_TTL_MAKES == 86400
CACHE_TTL_MODELS == 86400
CACHE_TTL_SEARCH == 3600
MaxSearchLimit == 50
FallbackOverfetch == 3
MinQueryLength == 2
MinTokenLength == 2
YearTokenLength == 4
MinYearFilter == 1990
MaxYearFilter == 2030

StrAll == <<"a","l","l">>
Str20 == <<"2","0">>
Min(a, b) == IF a < b THEN a ELSE b

\* the year part of a key: the raw year parameter, or "all"
YearOrAll(r) == IF Truthy(r.year) THEN r.year ELSE StrAll

\* handleVehicleSearch: query, limit, normalizedQuery
SearchQuery(r) == IF Truthy(r.q) THEN r.q ELSE IF Truthy(r.query) THEN r.query ELSE <<>>
SearchLimit(r) ==
  LET p == parseInt(IF Truthy(r.limit) THEN r.limit ELSE Str20)
  IN IF p = NoNum THEN NoNum ELSE Num(Min(p[1], MaxSearchLimit))
NormalizedQuery(r) == toLowerCase(trim(SearchQuery(r)))

\* the cache key of a request
CacheKey(h, r) ==
  CASE h = "years" -> <<"vehicles:years">>
    [] h = "makes" -> <<"vehicles:makes:">> \o YearOrAll(r)
    [] h = "models" -> <<"vehicles:models:">> \o YearOrAll(r) \o <<":">> \o toLowerCase(r.make)
    [] h = "trims" -> <<"vehicles:trims:">> \o YearOrAll(r) \o <<":">> \o toLowerCase(r.make)
                        \o <<":">> \o toLowerCase(r.model)
    [] h = "search" -> <<"vehicles:search:">> \o NormalizedQuery(r) \o <<":">>
                         \o NumToStr(SearchLimit(r)[1])

\* the TTL each handler passes to redis.set
CacheTtl(h) ==
  CASE h = "years" -> CACHE_TTL_YEARS
    [] h = "makes" -> CACHE_TTL_MAKES
    [] h = "models" -> CACHE_TTL_MODELS
    [] h = "trims" -> CACHE_TTL_MODELS
    [] h = "search" -> CACHE_TTL_SEARCH

\* JSON.stringify of a handler's result
Stringify(h, value) ==
  CASE h = "years" -> StringifyNumbers(value)
    [] h \in {"makes", "models", "trims"} -> StringifyStrings(value)
    [] h = "search" -> StringifySearch(value)

\* the year condition of a list query: none without the parameter
YearOk(rowYear, r) == Truthy(r.year) => rowYear = parseInt(r.year)[1]

\* the strings of a set, each repeated as often as given, in ascending order
\* (ORDER BY text ASC over rows that may repeat a value)
RECURSIVE Repeat(_, _)
Repeat(x, n) == IF n = 0 THEN <<>> ELSE <<x>> \o Repeat(x, n - 1)
RECURSIVE OrderedWithRepeats(_, _)
OrderedWithRepeats(sorted, keys) ==
  IF sorted = <<>> THEN <<>>
  ELSE Repeat(Head(sorted), Cardinality({k \in keys : k[2] = Head(sorted)}))
       \o OrderedWithRepeats(Tail(sorted), keys)

\* the materialized views: distinct projections of vehicle_specs
VehicleYearsView(rows) == {r.year : r \in rows}
VehicleMakesView(rows) == {<<r.year, r.make>> : r \in rows}
VehicleModelsView(rows) == {<<r.year, r.make, r.model>> : r \in rows}

\* handleYears
YearsFromView(rows) == SortDesc(VehicleYearsView(rows))
YearsFromTable(rows) == SortDesc({r.year : r \in rows})

\* handleMakes: with a year the view's rows are used as ordered by the store,
\* without one they are deduplicated and sorted
MakesFromView(rows, r) ==
  LET data == {v \in VehicleMakesView(rows) : YearOk(v[1], r)}
  IN SortStrings({v[2] : v \in data})
MakesFromTable(rows, r) == SortStrings({x.make : x \in {y \in rows : YearOk(y.year, r)}})

\* handleModels: with a year the view's rows are mapped to their model as
\* ordered by the store, without one they are deduplicated and sorted
ModelsFromView(rows, r) ==
  LET data == {v \in VehicleModelsView(rows) : YearOk(v[1], r) /\ ilike(v[2], r.make)}
      keyed == {<<<<v[1], v[2]>>, v[3]>> : v \in data}
  IN IF Truthy(r.year)
     THEN OrderedWithRepeats(SortStrings({v[3] : v \in data}), keyed)
     ELSE SortStrings({v[3] : v \in data})
ModelsFromTable(rows, r) ==
  SortStrings({x.model : x \in {y \in rows : YearOk(y.year, r) /\ ilike(y.make, r.make)}})

\* handleTrims: the raw table only; null and empty trims are dropped
TrimsFromTable(rows, r) ==
  SortStrings({x.trim : x \in {y \in rows : /\ ilike(y.make, r.make)
                                            /\ ilike(y.model, r.model)
                                            /\ YearOk(y.year, r)
                                            /\ Truthy(y.trim)}})

\* normalizedQuery.split(/\s+/)
RECURSIVE SplitWs(_, _)
SplitWs(s, cur) ==
  IF s = <<>> THEN <<cur>>
  ELSE IF IsSpace(Head(s)) THEN <<cur>> \o SplitWs(TrimLeft(s), <<>>)
  ELSE SplitWs(Tail(s), Append(cur, Head(s)))
Tokens(r) == SplitWs(NormalizedQuery(r), <<>>)

\* a token is a year filter: 4 characters whose parseInt lies in [1990, 2030]
IsYearTokenAnyLength(token) ==
  /\ parseInt(token) # NoNum
  /\ parseInt(token)[1] >= MinYearFilter
  /\ parseInt(token)[1] <= MaxYearFilter
IsYearToken(token) ==
  /\ Len(token) = YearTokenLength
  /\ parseInt(token) # NoNum
  /\ parseInt(token)[1] >= MinYearFilter
  /\ parseInt(token)[1] <= MaxYearFilter

\* yearFilter: the last year token, null without one
RECURSIVE YearFilter(_)
YearFilter(tokens) ==
  IF tokens = <<>> THEN NoNum
  ELSE IF IsYearToken(tokens[Len(tokens)]) THEN parseInt(tokens[Len(tokens)])
  ELSE YearFilter(SubSeq(tokens, 1, Len(tokens) - 1))

\* textTokens: the other tokens of length at least 2, in order
RECURSIVE TextTokens(_)
TextTokens(tokens) ==
  IF tokens = <<>> THEN <<>>
  ELSE (IF ~IsYearToken(Head(tokens)) /\ Len(Head(tokens)) >= MinTokenLength
        THEN <<Head(tokens)>> ELSE <<>>)
       \o TextTokens(Tail(tokens))

\* `%${token}%`
ContainsPattern(token) == <<"%">> \o token \o <<"%">>

\* the ranks the store may give the rows of vehicle_specs where no order is
\* defined
RowIds == {x.id : x \in SpecRowPool}
IdOrder == <<"s1", "s2", "s3", "s4", "s5", "s6">>

\* vehicle_autocomplete: one row per (year, make, model) with the display
\* text and the sample_vin of one row of the combination that has one
\* (a subquery with LIMIT 1 and no ORDER BY)
DisplayText(year, make, model) == NumToStr(year) \o <<" ">> \o make \o <<" ">> \o model
SampleVinOf(rows, year, make, model, rank) ==
  LET having == {x \in rows : /\ x.year = year /\ x.make = make /\ x.model = model
                               /\ x.sample_vin # Null}
  IN IF having = {} THEN Null
     ELSE (CHOOSE x \in having : \A y \in having : rank[x.id] <= rank[y.id]).sample_vin
AutocompleteView(rows, rank) ==
  { [year |-> x.year, make |-> x.make, model |-> x.model,
     display_text |-> DisplayText(x.year, x.make, x.model),
     sample_vin |-> SampleVinOf(rows, x.year, x.make, x.model, rank)] : x \in rows }

\* ORDER BY year DESC, make ASC, model ASC
SearchBefore(a, b) ==
  \/ a.year > b.year
  \/ a.year = b.year /\ StrLess(a.make, b.make)
  \/ a.year = b.year /\ a.make = b.make /\ StrLess(a.model, b.model)
SameCombination(a, b) == a.year = b.year /\ a.make = b.make /\ a.model = b.model

\* the rows of the view in that order
RECURSIVE OrderCombinations(_)
OrderCombinations(S) ==
  IF S = {} THEN <<>>
  ELSE LET m == CHOOSE x \in S : \A y \in S : y = x \/ SearchBefore(x, y)
       IN <<m>> \o OrderCombinations(S \ {m})

\* rows of vehicle_specs in that order; rows of one combination, which the
\* ORDER BY leaves in no defined order, follow the given rank
RECURSIVE OrderSearch(_, _)
OrderSearch(S, rank) ==
  IF S = {} THEN <<>>
  ELSE LET m == CHOOSE x \in S : \A y \in S :
                  \/ y = x
                  \/ SearchBefore(x, y)
                  \/ SameCombination(x, y) /\ rank[x.id] < rank[y.id]
       IN <<m>> \o OrderSearch(S \ {m}, rank)

\* every text token occurs in the display text
MatchesAllTokens(text, tokens) ==
  \A i \in DOMAIN tokens : ilike(text, ContainsPattern(tokens[i]))
\* every text token occurs in the make or in the model
MatchesAnyColumn(x, tokens) ==
  \A i \in DOMAIN tokens : \/ ilike(x.make, ContainsPattern(tokens[i]))
                           \/ ilike(x.model, ContainsPattern(tokens[i]))
YearFilterOk(rowYear, yf) == TruthyNum(yf) => rowYear = yf[1]

\* the primary path: the rows of the view, filtered, ordered and limited
SearchFromView(rows, r, rank) ==
  LET toks == Tokens(r)
      hits == {v \in AutocompleteView(rows, rank) :
                 /\ YearFilterOk(v.year, YearFilter(toks))
                 /\ MatchesAllTokens(v.display_text, TextTokens(toks))}
  IN Take(OrderCombinations(hits), SearchLimit(r)[1])

\* the key of the fallback's deduplication: `${year}-${make}-${model}`
DedupeKey(x) == NumToStr(x.year) \o <<"-">> \o x.make \o <<"-">> \o x.model

\* the loop without the break at limit results
RECURSIVE DedupeNoStop(_, _, _, _)
DedupeNoStop(rows, seen, acc, limit) ==
  IF rows = <<>> THEN acc
  ELSE IF DedupeKey(Head(rows)) \in seen THEN DedupeNoStop(Tail(rows), seen, acc, limit)
  ELSE LET x == Head(rows)
           acc2 == Append(acc, [year |-> x.year, make |-> x.make, model |-> x.model,
                                display_text |-> DisplayText(x.year, x.make, x.model),
                                sample_vin |-> x.sample_vin])
       IN DedupeNoStop(Tail(rows), seen \cup {DedupeKey(x)}, acc2, limit)

\* the fallback's loop: first row of each key, stopping at limit results
RECURSIVE Dedupe(_, _, _, _)
Dedupe(rows, seen, acc, limit) ==
  IF rows = <<>> THEN acc
  ELSE IF DedupeKey(Head(rows)) \in seen THEN Dedupe(Tail(rows), seen, acc, limit)
  ELSE LET x == Head(rows)
           acc2 == Append(acc, [year |-> x.year, make |-> x.make, model |-> x.model,
                                display_text |-> DisplayText(x.year, x.make, x.model),
                                sample_vin |-> x.sample_vin])
       IN IF Len(acc2) >= limit THEN acc2
          ELSE Dedupe(Tail(rows), seen \cup {DedupeKey(x)}, acc2, limit)

\* the rows the fallback query returns, for one rank of the tied rows:
\* filtered, ordered, and cut at three times the limit
SearchFetched(rows, r, rank) ==
  LET toks == Tokens(r)
      hits == {x \in rows : /\ YearFilterOk(x.year, YearFilter(toks))
                            /\ MatchesAnyColumn(x, TextTokens(toks))}
  IN Take(OrderSearch(hits, rank), SearchLimit(r)[1] * FallbackOverfetch)

\* the fallback path over vehicle_specs, for one rank of the tied rows
SearchFromTable(rows, r, rank) ==
  Dedupe(SearchFetched(rows, r, rank), {}, <<>>, SearchLimit(r)[1])

\* the parameter check of the search
SearchValidation(r) ==
  IF ~Truthy(SearchQuery(r)) \/ Len(SearchQuery(r)) < MinQueryLength
  THEN errorResponse("invalid_params", "Search query must be at least 2 characters")
  ELSE NoResponse

(***************************************************************************)
(* The cache store and the cached handlers' steps                          *)
(***************************************************************************)
CachedHandlers == {"years", "makes", "models", "trims", "search"}

\* redis.get: the value stored under the key, null (<<>>) without one
CacheGet(store, key) ==
  IF \E e \in store : e.key = key THEN (CHOOSE e \in store : e.key = key).value
  ELSE <<>>
\* a set that drops the entries of the other keys
CacheSetOnly(store, key, value, ttl) == {[key |-> key, value |-> value, ttl |-> ttl]}

\* redis.set(key, value, {ex: ttl}): replaces the key's entry
CacheSet(store, key, value, ttl) ==
  {e \in store : e.key # key} \cup {[key |-> key, value |-> value, ttl |-> ttl]}

\* what the client hands back for a stored text: the text itself, or the
\* value it holds when the client deserializes on its own
ClientGet(stored, auto) ==
  IF stored = <<>> THEN [kind |-> "null", v |-> <<>>]
  ELSE IF auto THEN [kind |-> "json", v |-> JsonParse(stored)]
  ELSE [kind |-> "string", v |-> stored]
\* if (cached)
CachedTruthy(c) == c.kind = "json" \/ (c.kind = "string" /\ c.v # <<>>)
\* typeof cached === 'string' ? JSON.parse(cached) : cached
CachedValue(c) == IF c.kind = "string" THEN JsonParse(c.v) ELSE c.v

\* the relation each handler queries first
ViewOf(h) ==
  CASE h = "years" -> "vehicle_years"
    [] h = "makes" -> "vehicle_makes"
    [] h = "models" -> "vehicle_models"
    [] h = "search" -> "vehicle_autocomplete"

RankNames == {"idAsc", "idDesc"}
RankOf(name) ==
  IF name = "idDesc" THEN [i \in RowIds |-> Len(IdOrder) + 1 - IndexIn(i, IdOrder)]
  ELSE [i \in RowIds |-> IndexIn(i, IdOrder)]
\* only the search reads columns whose order the store leaves open
RanksFor(h) == IF h = "search" THEN RankNames ELSE {"idAsc"}

\* the result computed from the view
ViewResult(h, rows, r, rk) ==
  CASE h = "years" -> YearsFromView(rows)
    [] h = "makes" -> MakesFromView(rows, r)
    [] h = "models" -> ModelsFromView(rows, r)
    [] h = "search" -> SearchFromView(rows, r, RankOf(rk))
\* the result computed from vehicle_specs
TableResult(h, rows, r, rk) ==
  CASE h = "years" -> YearsFromTable(rows)
    [] h = "makes" -> MakesFromTable(rows, r)
    [] h = "models" -> ModelsFromTable(rows, r)
    [] h = "trims" -> TrimsFromTable(rows, r)
    [] h = "search" -> SearchFromTable(rows, r, RankOf(rk))

\* years, makes and models fall back on any error of the view; the search
\* only when the view does not exist (42P01 / PGRST205)
FallsBack(h, status) == IF h = "search" THEN status = "missing" ELSE status # "ok"

\* where a handler goes after the cache read
AfterCacheReadAlwaysQuery(h, hit) == IF h = "trims" THEN "table" ELSE "view"
AfterCacheRead(h, hit) ==
  IF hit THEN "done" ELSE IF h = "trims" THEN "table" ELSE "view"

\* where a handler goes with a result from vehicle_specs: handleYears
\* answers at once, the others write the cache first
AfterTable(h) == IF h = "years" THEN "done" ELSE "cacheWrite"

\* the response after redis.set: the catch swallows a throw
CacheWriteResponseFailClosed(value, outcome) ==
  IF outcome = "throws" THEN internalErrorResponse ELSE successResponse(value)
CacheWriteResponse(value, outcome) == successResponse(value)

GetOp(key, outcome, stored) ==
  [op |-> "get", key |-> key, ttl |-> 0, outcome |-> outcome, value |-> stored]
SetOp(key, outcome, value, ttl) ==
  [op |-> "set", key |-> key, ttl |-> ttl, outcome |-> outcome, value |-> value]

\* handleVehicleSearch: the parameter check
SearchValidate ==
  /\ handler = "search"
  /\ pc = "validate"
  /\ IF SearchValidation(req) # NoResponse
     THEN resp' = SearchValidation(req) /\ pc' = "done"
     ELSE resp' = resp /\ pc' = "cacheRead"
  /\ UNCHANGED <<handler, req, db, views, queries, cache, cacheOps, env, result, populated,
               resolveVars, routerVars>>

\* try { cached = await redis.get(cacheKey); if (cached) return ... } catch {}
CacheRead ==
  /\ handler \in CachedHandlers
  /\ pc = "cacheRead"
  /\ \E outcome \in {"ok", "throws"}, auto \in BOOLEAN :
       LET key == CacheKey(handler, req)
           stored == CacheGet(cache, key)
           cached == ClientGet(stored, auto)
           hit == outcome = "ok" /\ CachedTruthy(cached)
       IN /\ env' = [env EXCEPT !.read = outcome]
          /\ cacheOps' = Append(cacheOps,
               GetOp(key, IF outcome = "throws" THEN "throws"
                          ELSE IF hit THEN "hit" ELSE "miss",
                     IF outcome = "ok" THEN stored ELSE <<>>))
          /\ resp' = IF hit THEN successResponse(CachedValue(cached)) ELSE resp
          /\ pc' = AfterCacheRead(handler, hit)
  /\ UNCHANGED <<handler, req, db, views, queries, cache, result, populated, resolveVars, routerVars>>

\* the query on the materialized view
ViewQuery ==
  /\ handler \in CachedHandlers \ {"trims"}
  /\ pc = "view"
  /\ \E status \in {"ok", "missing", "error"}, rk \in RanksFor(handler) :
       /\ env' = [env EXCEPT !.view = status, !.rank = rk]
       /\ queries' = Append(queries, ViewOf(handler))
       /\ IF status = "ok"
          THEN /\ result' = ViewResult(handler, views, req, rk)
               /\ pc' = "cacheWrite"
               /\ resp' = resp
          ELSE IF FallsBack(handler, status)
          THEN /\ pc' = "table"
               /\ UNCHANGED <<result, resp>>
          ELSE /\ resp' = internalErrorResponse
               /\ pc' = "done"
               /\ result' = result
  /\ UNCHANGED <<handler, req, db, views, cache, cacheOps, populated, resolveVars, routerVars>>

\* the query on vehicle_specs: the fallback, and the only query of handleTrims
TableQuery ==
  /\ handler \in CachedHandlers
  /\ pc = "table"
  /\ \E status \in {"ok", "error"}, rk \in RanksFor(handler) :
       /\ env' = [env EXCEPT !.table = status, !.rank = rk]
       /\ queries' = Append(queries, "vehicle_specs")
       /\ IF status = "error"
          THEN /\ resp' = internalErrorResponse
               /\ pc' = "done"
               /\ result' = result
          ELSE /\ result' = TableResult(handler, db, req, rk)
               /\ pc' = AfterTable(handler)
               /\ resp' = IF AfterTable(handler) = "done"
                          THEN successResponse(TableResult(handler, db, req, rk))
                          ELSE resp
  /\ UNCHANGED <<handler, req, db, views, cache, cacheOps, populated, resolveVars, routerVars>>

\* try { await redis.set(cacheKey, JSON.stringify(x), {ex: TTL}) } catch {}
\* return successResponse(x)
CacheWrite ==
  /\ handler \in CachedHandlers
  /\ pc = "cacheWrite"
  /\ \E outcome \in {"ok", "throws"} :
       LET key == CacheKey(handler, req)
           value == Stringify(handler, result)
       IN /\ env' = [env EXCEPT !.write = outcome]
          /\ cache' = IF outcome = "ok"
                      THEN CacheSet(cache, key, value, CacheTtl(handler))
                      ELSE cache
          /\ cacheOps' = Append(cacheOps, SetOp(key, outcome, value, CacheTtl(handler)))
          /\ populated' = IF outcome = "ok"
                          THEN [k \in DOMAIN populated \cup {key} |->
                                  IF k = key THEN result ELSE populated[k]]
                          ELSE populated
          /\ resp' = CacheWriteResponse(result, outcome)
          /\ pc' = "done"
  /\ UNCHANGED <<handler, req, db, views, queries, result, resolveVars, routerVars>>

\* the store drops an entry whose TTL has run out
Expire ==
  /\ handler \in CachedHandlers
  /\ pc = "done"
  /\ \E e \in cache :
       /\ cache' = cache \ {e}
       /\ populated' = [k \in DOMAIN populated \ {e.key} |-> populated[k]]
  /\ UNCHANGED <<handler, pc, req, db, views, queries, resp, cacheOps, env, result, resolveVars, routerVars>>

\* the requests served
CacheReq(year, make, model, q, query, limit) ==
  [year |-> year, make |-> make, model |-> model, q |-> q, query |-> query,
   limit |-> limit]
StrHondaQuery == <<"H","o","n","d","a"," ">>
Str2024Cr == <<"2","0","2","4"," ","c","r">>
StrH == <<"h">>
StrPaddedH == <<" ", "h", " ">>
CacheRequests ==
  { <<"years", CacheReq(Null, Null, Null, Null, Null, Null)>>,
    <<"makes", CacheReq(Null, Null, Null, Null, Null, Null)>>,
    <<"makes", CacheReq(Str2024, Null, Null, Null, Null, Null)>>,
    <<"models", CacheReq(Null, StrHONDA, Null, Null, Null, Null)>>,
    <<"models", CacheReq(Str2024, StrHondaLower, Null, Null, Null, Null)>>,
    <<"trims", CacheReq(Str2024, StrHONDA, StrCRV, Null, Null, Null)>>,
    <<"search", CacheReq(Null, Null, Null, StrHondaQuery, Null, Null)>>,
    <<"search", CacheReq(Null, Null, Null, Null, Str2024Cr, Str1)>>,
    <<"search", CacheReq(Null, Null, Null, StrH, Null, Null)>>,
    <<"search", CacheReq(Null, Null, Null, StrPaddedH, Null, Null)>> }

\* the catalogues the cached handlers run over
CachePool == {x \in SpecRowPool : x.id \in {"s1", "s2", "s5", "s6"}}
CacheCatalogs == {c \in Catalogs : c \subseteq CachePool}

FirstStep(h) == IF h = "search" THEN "validate" ELSE "cacheRead"

\* the next request arrives; the cache keeps what earlier requests wrote
NewRequest ==
  /\ handler \in CachedHandlers
  /\ pc = "done"
  /\ Cardinality(cache) <= MaxCached
  /\ \E hr \in CacheRequests :
       /\ handler' = hr[1]
       /\ req' = hr[2]
       /\ pc' = FirstStep(hr[1])
  /\ queries' = <<>>
  /\ resp' = NoResponse
  /\ cacheOps' = <<>>
  /\ env' = EnvUnset
  /\ result' = <<>>
  /\ UNCHANGED <<db, views, cache, populated, resolveVars, routerVars>>

InitCache ==
  /\ \E hr \in CacheRequests :
       /\ handler = hr[1]
       /\ req = hr[2]
       /\ pc = FirstStep(hr[1])
  /\ db \in CacheCatalogs
  /\ views = db
  /\ decoded = NoDecoded
  /\ specs = <<>>
  /\ warranties = <<>>
  /\ marketValues = <<>>
  /\ maintenance = <<>>
  /\ fetchCalls = 0
  /\ upstream = "none"
  /\ queries = <<>>
  /\ subFailed = {}
  /\ resp = NoResponse
  /\ cache = {}
  /\ populated = NoPopulated
  /\ events = <<>>
  /\ usageLog = NoUsageLog
  /\ returned = NoResponse
  /\ cacheOps = <<>>
  /\ env = EnvUnset
  /\ result = <<>>

NextCache ==
  \/ SearchValidate
  \/ CacheRead
  \/ ViewQuery
  \/ TableQuery
  \/ CacheWrite
  \/ Expire
  \/ NewRequest

SpecCache == InitCache /\ [][NextCache]_vars

(***************************************************************************)
(* Properties of the cached handlers                                       *)
(***************************************************************************)
IsCachedHandler == handler \in CachedHandlers
\* the request has read the cache
CacheWasRead == IsCachedHandler /\ cacheOps # <<>> /\ cacheOps[1].op = "get"
\* the read came back with a value
ReadReturnedValue ==
  CacheWasRead /\ cacheOps[1].outcome # "throws" /\ cacheOps[1].value # <<>>

\* C8: when the cache read for the request's key returns a value, the
\* handler has answered with that value deserialized and has issued no
\* query to the relational store, neither to a view nor to vehicle_specs.
C8_HitServedFromCache ==
  ReadReturnedValue =>
    /\ pc = "done"
    /\ cacheOps[1].key = CacheKey(handler, req)
    /\ resp = successResponse(JsonParse(cacheOps[1].value))
    /\ queries = <<>>
    /\ Len(cacheOps) = 1

\* a search answered from the cache with a non-empty list of vehicles
C8_Witness ==
  /\ ReadReturnedValue
  /\ handler = "search"
  /\ pc = "done"
  /\ resp.ok
  /\ resp.data # <<>>
  /\ queries = <<>>

\* the response of the request run against an empty, working cache, given
\* how the relational store answered
ExpectedOnMiss(h, r, rows, viewRows, e) ==
  IF h = "search" /\ SearchValidation(r) # NoResponse THEN SearchValidation(r)
  ELSE IF h # "trims" /\ e.view = "ok"
  THEN successResponse(ViewResult(h, viewRows, r, e.rank))
  ELSE IF h # "trims" /\ ~FallsBack(h, e.view) THEN internalErrorResponse
  ELSE IF e.table = "ok" THEN successResponse(TableResult(h, rows, r, e.rank))
  ELSE internalErrorResponse

CacheFailed == env.read = "throws" \/ env.write = "throws"

\* two responses agree in status, error code and payload
SameResponse(a, b) ==
  /\ a.status = b.status
  /\ a.ok = b.ok
  /\ a.code = b.code
  /\ a.data = b.data

\* C9: cache failures fail open: whenever the cache read or the cache write
\* of a request threw, the finished request's response, status and payload,
\* equals the response of the same request against an empty, working cache.
C9_CacheFailuresFailOpen ==
  (IsCachedHandler /\ pc = "done" /\ CacheFailed) =>
    SameResponse(resp, ExpectedOnMiss(handler, req, db, views, env))

\* read and write both threw and the request answered a non-empty result,
\* while the cache held a value under the request's key
C9_Witness ==
  /\ IsCachedHandler
  /\ pc = "done"
  /\ env.read = "throws"
  /\ env.write = "throws"
  /\ resp.ok
  /\ resp.data # <<>>
  /\ CacheGet(cache, CacheKey(handler, req)) # <<>>

\* the TTL stated for each resource class
StatedTtl(h) == IF h = "search" THEN 3600 ELSE 86400

\* the request missed the cache (or could not read it) and answered a
\* computed result
MissedAndComputed ==
  /\ CacheWasRead
  /\ pc = "done"
  /\ cacheOps[1].outcome # "hit"
  /\ resp.ok

\* C10 as stated: every request that misses the cache and computes a
\* successful result has written the serialized result under its key with
\* the class's TTL before responding, from the view or from the fallback.
C10_MissWritesThroughAsClaimed ==
  MissedAndComputed =>
    \E i \in DOMAIN cacheOps :
      /\ cacheOps[i].op = "set"
      /\ cacheOps[i].key = CacheKey(handler, req)
      /\ cacheOps[i].value = Stringify(handler, resp.data)
      /\ cacheOps[i].ttl = StatedTtl(handler)

\* the handlers that query a materialized view first
ViewHandlers == {"years", "makes", "models", "search"}
\* the request has queried vehicle_specs
TableQueried == \E i \in DOMAIN queries : queries[i] = "vehicle_specs"

\* C11 as stated: in the years, makes, models and search handlers the query
\* on vehicle_specs is issued only after the view query failed because the
\* view does not exist; any other error of the view query ends the request
\* with internal_error and no query on vehicle_specs, and a successful view
\* query is never followed by one.
C11_FallbackOnlyWhenViewMissingAsClaimed ==
  (handler \in ViewHandlers /\ env.view # "unset") =>
    /\ TableQueried => env.view = "missing"
    /\ env.view = "error" =>
         /\ pc = "done"
         /\ resp.code = "internal_error"
         /\ ~TableQueried
    /\ env.view = "ok" => ~TableQueried

\* the request was answered from the cache
ServedFromCache ==
  CacheWasRead /\ pc = "done" /\ cacheOps[1].outcome = "hit"

\* C12: with the catalogue and the parameters unchanged, the payload of a
\* request served from the cache is identical to the payload answered by
\* the miss that wrote the key: serializing on write and deserializing on
\* the hit is the identity on every result a handler computes.
C12_HitEqualsPopulatingMiss ==
  [][(IsCachedHandler /\ pc = "cacheRead" /\ pc' = "done") =>
       /\ CacheKey(handler, req) \in DOMAIN populated
       /\ resp' = successResponse(populated[CacheKey(handler, req)])]_vars

\* a search served from the cache whose vehicles include one without a
\* sample VIN and one with
C12_Witness ==
  /\ ServedFromCache
  /\ handler = "search"
  /\ \E i \in DOMAIN resp.data : resp.data[i].sample_vin = Null
  /\ \E i \in DOMAIN resp.data : resp.data[i].sample_vin # Null

\* the search query is shorter than 2 characters once trimmed
ShortAfterTrim(r) == Len(trim(SearchQuery(r))) < 2

\* C13 as stated: the search rejects with invalid_params every query whose
\* length after trimming the surrounding whitespace is below 2, one letter
\* padded with spaces included, and touches neither the cache nor the
\* datastore for it.
C13_ShortQueryRejectedAsClaimed ==
  (handler = "search" /\ ShortAfterTrim(req) /\ pc # "validate") =>
    /\ pc = "done"
    /\ resp.code = "invalid_params"
    /\ cacheOps = <<>>
    /\ queries = <<>>

(***************************************************************************)
(* The search tokenizer on its own                                         *)
(***************************************************************************)
TokenPool ==
  { <<"2","0","2","4">>, <<"1","9","9","0">>, <<"2","0","3","0">>,
    <<"1","9","8","9">>, <<"2","0","3","1">>, <<"2","0","2","x">>,
    <<"2","0","2","4","x">>, <<"0","x","7","e">>, <<"-","1","9","9">>,
    <<"A","c","c","o","r","d">>, StrHondaLower, <<"c","r">>, <<"a">>, <<"7">> }
Separators == { <<" ">>, <<" ", "\t">> }

RECURSIVE JoinWith(_, _)
JoinWith(parts, sep) ==
  IF parts = <<>> THEN <<>>
  ELSE IF Len(parts) = 1 THEN parts[1]
  ELSE parts[1] \o sep \o JoinWith(Tail(parts), sep)

\* sequences of 1..MaxTokens tokens
TokenSeqs == UNION {[1..n -> TokenPool] : n \in 1..MaxTokens}
\* the query of a token sequence: joined by a separator, padded by one
QueryOf(parts, sep) == sep \o JoinWith(parts, sep) \o sep
TokenizerQueries == {QueryOf(parts, sep) : parts \in TokenSeqs, sep \in Separators}

\* lines 959-973 of handleVehicleSearch: tokens, yearFilter, textTokens
Tokenization(r) ==
  [yearFilter |-> YearFilter(Tokens(r)), textTokens |-> TextTokens(Tokens(r))]
NoTokenization == [yearFilter |-> NoNum, textTokens |-> <<>>]

Tokenize ==
  /\ handler = "tokenize"
  /\ pc = "tokenize"
  /\ result' = Tokenization(req)
  /\ pc' = "done"
  /\ UNCHANGED <<handler, req, db, views, queries, resp, cache, cacheOps, env, populated,
                 resolveVars, routerVars>>

InitTokenize ==
  /\ handler = "tokenize"
  /\ pc = "tokenize"
  /\ req \in {CacheReq(Null, Null, Null, q, Null, Null) : q \in TokenizerQueries}
  /\ db = {}
  /\ views = db
  /\ decoded = NoDecoded
  /\ specs = <<>>
  /\ warranties = <<>>
  /\ marketValues = <<>>
  /\ maintenance = <<>>
  /\ fetchCalls = 0
  /\ upstream = "none"
  /\ queries = <<>>
  /\ subFailed = {}
  /\ resp = NoResponse
  /\ cache = {}
  /\ populated = NoPopulated
  /\ events = <<>>
  /\ usageLog = NoUsageLog
  /\ returned = NoResponse
  /\ cacheOps = <<>>
  /\ env = EnvUnset
  /\ result = NoTokenization

NextTokenize == Tokenize

SpecTokenize == InitTokenize /\ [][NextTokenize]_vars

\* a token as the claim describes a year: exactly 4 characters, all digits,
\* with a value from 1990 to 2030
DigitOf(c) == CHOOSE d \in 0..9 : Digits10[d + 1] = c
ClaimedYearToken(t) ==
  /\ Len(t) = 4
  /\ \A i \in 1..4 : t[i] \in Range(Digits10)
  /\ 1000 * DigitOf(t[1]) + 100 * DigitOf(t[2]) + 10 * DigitOf(t[3]) + DigitOf(t[4])
       \in 1990..2030
ClaimedYearValue(t) ==
  1000 * DigitOf(t[1]) + 100 * DigitOf(t[2]) + 10 * DigitOf(t[3]) + DigitOf(t[4])
ClaimedTextToken(t) == ~ClaimedYearToken(t) /\ Len(t) >= 2

\* the tokenization the claim describes, for a query made of the given parts
ClaimedTokenization(parts) ==
  LET low == [i \in DOMAIN parts |-> toLowerCase(parts[i])]
      yearAt == {i \in DOMAIN low : ClaimedYearToken(low[i])}
      lastYear == CHOOSE i \in yearAt : \A j \in yearAt : j <= i
  IN [yearFilter |-> IF yearAt = {} THEN NoNum ELSE Num(ClaimedYearValue(low[lastYear])),
      textTokens |-> SelectSeq(low, ClaimedTextToken)]

\* C14: the normalized query is split on whitespace; a token sets the year
\* filter iff it has exactly 4 characters, all digits, with a value in
\* [1990, 2030]; every other token of length at least 2 is a text token, in
\* the original order, and shorter tokens are dropped.
C14_Tokenization ==
  (handler = "tokenize" /\ pc = "done") =>
    \A parts \in TokenSeqs, sep \in Separators :
      req.q = QueryOf(parts, sep) => result = ClaimedTokenization(parts)

Str2024Accord == <<" ","2","0","2","4"," ","A","c","c","o","r","d"," ">>
\* "2024 accord" gives the year filter 2024 and the text token "accord"
C14_Witness ==
  /\ handler = "tokenize"
  /\ pc = "done"
  /\ req.q = Str2024Accord
  /\ result.yearFilter = Num(2024)
  /\ result.textTokens = << <<"a","c","c","o","r","d">> >>

(***************************************************************************)
(* Deno.serve: the request pipeline and the router                         *)
(***************************************************************************)
\* the helpers of _shared/response.ts the pipeline uses
unauthorizedResponse(message) == errorResponseStatus("unauthorized", message, 401)
rateLimitResponse(retryAfter) == errorResponseStatus("rate_limited", "Rate limit exceeded", 429)
\* handleCors of _shared/cors.ts: a response for a preflight, null otherwise
CorsPreflightResponse == [status |-> 204, ok |-> TRUE, code |-> "", data |-> "cors"]
handleCors(r) == IF r.method = "OPTIONS" THEN CorsPreflightResponse ELSE NoResponse

\* url.pathname.split('/').filter(Boolean); a pathname is a sequence of "/"
\* and non-empty segments
IsSegment(x) == x # "/"
PathParts(pathname) == SelectSeq(pathname, IsSegment)
\* pathParts[i] (0-based); "" stands for undefined
Part(pp, i) == IF i + 1 <= Len(pp) THEN pp[i + 1] ELSE ""

\* a matched route: the handler it awaits and the pattern it assigns to
\* `endpoint` once the handler has returned; an unmatched request assigns
\* nothing and `endpoint` stays url.pathname
Routed(name, endpoint) == [name |-> name, endpoint |-> endpoint, resp |-> NoResponse]
Unrouted(response) == [name |-> "none", endpoint |-> "pathname", resp |-> response]

\* the makes branch of the route table
RouteMakes(pp) ==
  IF Part(pp, 2) = "" THEN Routed("handleMakes", "/makes")
  ELSE IF Part(pp, 3) = "models" /\ Part(pp, 4) = ""
  THEN Routed("handleModels", "/makes/:make/models")
  ELSE IF Part(pp, 3) = "models" /\ Part(pp, 5) = "trims"
  THEN Routed("handleTrims", "/makes/:make/models/:model/trims")
  ELSE Unrouted(notFoundResponse("Unknown makes endpoint"))

\* the route table under /vehicles
RouteVehicles(pp) ==
  IF Part(pp, 1) = "years" THEN Routed("handleYears", "/vehicles/years")
  ELSE IF Part(pp, 1) = "search" THEN Routed("handleVehicleSearch", "/vehicles/search")
  ELSE IF Part(pp, 1) = "vin" /\ Part(pp, 2) # ""
  THEN Routed("handleVinLookup", "/vehicles/vin/:vin")
  ELSE IF Part(pp, 1) = "decode" /\ Part(pp, 2) # ""
  THEN Routed("handleVinDecode", "/vehicles/decode/:vin")
  ELSE IF Part(pp, 1) = "lookup" THEN Routed("handleLookup", "/vehicles/lookup")
  ELSE IF Part(pp, 1) = "specs" /\ Part(pp, 2) = ""
  THEN Routed("handleSpecsSearch", "/vehicles/specs")
  ELSE IF Part(pp, 1) = "makes" THEN RouteMakes(pp)
  ELSE IF Part(pp, 2) = "specs" THEN Routed("handleSpecsById", "/vehicles/:id/specs")
  ELSE IF Part(pp, 2) = "warranty" THEN Routed("handleWarranty", "/vehicles/:id/warranty")
  ELSE IF Part(pp, 2) = "market-value"
  THEN Routed("handleMarketValue", "/vehicles/:id/market-value")
  ELSE IF Part(pp, 2) = "maintenance"
  THEN Routed("handleMaintenance", "/vehicles/:id/maintenance")
  ELSE Unrouted(notFoundResponse("Unknown endpoint"))

\* lines 74-132: the method check, then the route table
RouteAnyMethod(method, pp) ==
  IF Part(pp, 0) = "vehicles" THEN RouteVehicles(pp)
  ELSE Unrouted(notFoundResponse("Unknown endpoint"))
Route(method, pp) ==
  IF method # "GET"
  THEN Unrouted(errorResponseStatus("method_not_allowed",
                                    "Only GET requests are supported", 405))
  ELSE IF Part(pp, 0) = "vehicles" THEN RouteVehicles(pp)
  ELSE Unrouted(notFoundResponse("Unknown endpoint"))

\* the requests the pipeline is run on
Methods == {"GET", "POST", "DELETE", "OPTIONS"}
Pathnames ==
  { <<"/">>,
    <<"/", "vehicles">>,
    <<"/", "vehicles", "/">>,
    <<"/", "vehicles", "/", "years">>,
    <<"/", "vehicles", "/", "/", "years", "/">>,
    <<"/", "vehicles", "/", "years", "/", "x">>,
    <<"/", "vehicles", "/", "search">>,
    <<"/", "vehicles", "/", "vin">>,
    <<"/", "vehicles", "/", "vin", "/", "1HGCM82633A004352">>,
    <<"/", "vehicles", "/", "vin", "/", "1HGCM82633A004352", "/", "x">>,
    <<"/", "vehicles", "/", "decode">>,
    <<"/", "vehicles", "/", "decode", "/", "1HGCM82633A004352">>,
    <<"/", "vehicles", "/", "lookup">>,
    <<"/", "vehicles", "/", "lookup", "/", "x">>,
    <<"/", "vehicles", "/", "specs">>,
    <<"/", "vehicles", "/", "specs", "/", "x">>,
    <<"/", "vehicles", "/", "specs", "/", "specs">>,
    <<"/", "vehicles", "/", "makes">>,
    <<"/", "vehicles", "/", "makes", "/", "honda">>,
    <<"/", "vehicles", "/", "makes", "/", "honda", "/", "models">>,
    <<"/", "vehicles", "/", "makes", "/", "honda", "/", "models", "/", "cr-v">>,
    <<"/", "vehicles", "/", "makes", "/", "honda", "/", "models", "/", "cr-v", "/", "trims">>,
    <<"/", "vehicles", "/", "makes", "/", "honda", "/", "models", "/", "cr-v", "/", "trims",
      "/", "x">>,
    <<"/", "vehicles", "/", "makes", "/", "honda", "/", "x">>,
    <<"/", "vehicles", "/", "id1">>,
    <<"/", "vehicles", "/", "id1", "/", "specs">>,
    <<"/", "vehicles", "/", "id1", "/", "specs", "/", "x">>,
    <<"/", "vehicles", "/", "id1", "/", "warranty">>,
    <<"/", "vehicles", "/", "id1", "/", "market-value">>,
    <<"/", "vehicles", "/", "id1", "/", "maintenance">>,
    <<"/", "vehicles", "/", "id1", "/", "recalls">>,
    <<"/", "makes">>,
    <<"/", "makes", "/", "honda", "/", "models">>,
    <<"/", "years">> }
RouterReq(method, pathname) == [method |-> method, pathname |-> pathname]

\* how a handler may end: a response it returns, or an exception
HandlerOutcomes == {"success", "invalid_params", "not_found", "internal_error", "throws"}
\* the response the try block leaves in `response`
HandlerResponse(outcome) ==
  CASE outcome = "success" -> successResponse("payload")
    [] outcome = "invalid_params" -> errorResponse("invalid_params", "Invalid parameters")
    [] outcome = "not_found" -> notFoundResponse("Not found")
    [] outcome = "internal_error" -> internalErrorResponse
    [] outcome = "throws" -> internalErrorResponse

Event(call, outcome) == [call |-> call, outcome |-> outcome]

\* where the pipeline goes after authenticateRequest
AfterAuthIgnoresResult(valid) == "rateLimit"
AfterAuth(valid) == IF valid THEN "rateLimit" ELSE "returned"
\* where the pipeline goes after checkRateLimit
AfterRateLimit(allowed) == IF allowed THEN "route" ELSE "returned"

\* the response returned after logUsage was called, whatever becomes of the
\* call: it is not awaited and its rejection is caught
ReturnAfterLogAwaited(response, fate) ==
  IF fate = "rejected" THEN internalErrorResponse ELSE response
ReturnAfterLog(response, fate) == response

\* const corsResponse = handleCors(req); if (corsResponse) return corsResponse
Cors ==
  /\ pc = "cors"
  /\ IF handleCors(req) # NoResponse
     THEN returned' = handleCors(req) /\ pc' = "returned"
     ELSE returned' = returned /\ pc' = "auth"
  /\ UNCHANGED <<handler, req, resp, events, usageLog, db, views, queries, cacheVars, resolveVars>>

\* the error authenticateRequest may answer with; "" stands for none
AuthErrors == {"", "Invalid API key"}
\* auth.error || 'Unauthorized'
AuthMessage(error) == IF error # "" THEN error ELSE "Unauthorized"

\* const auth = await authenticateRequest(req)
Authenticate ==
  /\ pc = "auth"
  /\ \E valid \in BOOLEAN, error \in AuthErrors :
       /\ events' = Append(events, Event("authenticateRequest",
                                         IF valid THEN "valid" ELSE "invalid"))
       /\ pc' = AfterAuth(valid)
       /\ returned' = IF AfterAuth(valid) = "returned"
                      THEN unauthorizedResponse(AuthMessage(error)) ELSE returned
  /\ UNCHANGED <<handler, req, resp, usageLog, db, views, queries, cacheVars, resolveVars>>

\* const rateLimitCheck = await checkRateLimit(...)
RateLimit ==
  /\ pc = "rateLimit"
  /\ \E allowed \in BOOLEAN :
       /\ events' = Append(events, Event("checkRateLimit",
                                         IF allowed THEN "allowed" ELSE "denied"))
       /\ pc' = AfterRateLimit(allowed)
       /\ returned' = IF AfterRateLimit(allowed) = "returned"
                      THEN rateLimitResponse(1) ELSE returned
  /\ UNCHANGED <<handler, req, resp, usageLog, db, views, queries, cacheVars, resolveVars>>

\* the try block up to the call of the matched handler, or the response of
\* an unmatched request
Dispatch ==
  /\ pc = "route"
  /\ LET r == Route(req.method, PathParts(req.pathname))
     IN IF r.name # "none"
        THEN /\ handler' = r.name
             /\ events' = Append(events, Event(r.name, "invoked"))
             /\ pc' = "handler"
             /\ resp' = resp
        ELSE /\ resp' = r.resp
             /\ pc' = "log"
             /\ UNCHANGED <<handler, events>>
  /\ UNCHANGED <<req, usageLog, returned, db, views, queries, cacheVars, resolveVars>>

\* the handler's promise settles: its response, or the catch's 500
HandlerReturns ==
  /\ pc = "handler"
  /\ \E outcome \in HandlerOutcomes :
       /\ resp' = HandlerResponse(outcome)
       /\ events' = Append(events, Event(handler,
                                         IF outcome = "throws" THEN "throws" ELSE "returns"))
  /\ pc' = "log"
  /\ UNCHANGED <<handler, req, usageLog, returned, db, views, queries, cacheVars, resolveVars>>

\* url.pathname as one text
RECURSIVE PathnameText(_)
PathnameText(pathname) ==
  IF pathname = <<>> THEN "" ELSE pathname[1] \o PathnameText(Tail(pathname))

\* the awaited handler threw: the catch ran before the route's assignment
HandlerThrew == events # <<>> /\ events[Len(events)].outcome = "throws"

\* let endpoint = url.pathname; response = await handleX(...); endpoint = '<pattern>':
\* the pattern is assigned only after the handler has returned
Endpoint(r, pathname, threw) ==
  IF r.name = "none" \/ threw THEN PathnameText(pathname) ELSE r.endpoint

\* logUsage(...).catch(...); return response
LogUsageAndReturn ==
  /\ pc = "log"
  /\ \E fate \in {"resolved", "rejected", "never"} :
       /\ usageLog' = [state |-> "pending", fate |-> fate,
                       endpoint |-> Endpoint(Route(req.method, PathParts(req.pathname)),
                                             req.pathname, HandlerThrew),
                       status |-> resp.status]
       /\ returned' = ReturnAfterLog(resp, fate)
  /\ events' = Append(events, Event("logUsage", "called"))
  /\ pc' = "returned"
  /\ UNCHANGED <<handler, req, resp, db, views, queries, cacheVars, resolveVars>>

\* the logUsage promise settles after the response has been returned; a
\* rejection is logged by the catch
UsageSettles ==
  /\ pc = "returned"
  /\ usageLog.state = "pending"
  /\ usageLog.fate # "never"
  /\ usageLog' = [usageLog EXCEPT !.state = usageLog.fate]
  /\ UNCHANGED <<handler, pc, req, resp, events, returned, db, views, queries, cacheVars,
                 resolveVars>>

InitRouter ==
  /\ handler = "none"
  /\ pc = "cors"
  /\ req \in {RouterReq(m, p) : m \in Methods, p \in Pathnames}
  /\ db = {}
  /\ views = db
  /\ decoded = NoDecoded
  /\ specs = <<>>
  /\ warranties = <<>>
  /\ marketValues = <<>>
  /\ maintenance = <<>>
  /\ fetchCalls = 0
  /\ upstream = "none"
  /\ queries = <<>>
  /\ subFailed = {}
  /\ resp = NoResponse
  /\ cache = {}
  /\ populated = NoPopulated
  /\ cacheOps = <<>>
  /\ env = EnvUnset
  /\ result = <<>>
  /\ events = <<>>
  /\ usageLog = NoUsageLog
  /\ returned = NoResponse

NextRouter ==
  \/ Cors
  \/ Authenticate
  \/ RateLimit
  \/ Dispatch
  \/ HandlerReturns
  \/ LogUsageAndReturn
  \/ UsageSettles

SpecRouter == InitRouter /\ [][NextRouter]_vars

(***************************************************************************)
(* Properties of the pipeline and the router                               *)
(***************************************************************************)
Happened(call, outcome) ==
  \E i \in DOMAIN events : events[i] = Event(call, outcome)
HandlerNames ==
  {"handleYears", "handleVehicleSearch", "handleVinLookup", "handleVinDecode",
   "handleLookup", "handleSpecsSearch", "handleMakes", "handleModels", "handleTrims",
   "handleSpecsById", "handleWarranty", "handleMarketValue", "handleMaintenance"}
HandlerInvoked == \E i \in DOMAIN events : events[i].call \in HandlerNames
\* the request passed authentication and the rate limit and has been routed
PassedGate == Happened("checkRateLimit", "allowed") /\ pc # "route"

\* C15: a request that passed the CORS handling, authentication and the
\* rate-limit check with a method other than GET is answered
\* method_not_allowed with status 405 whatever its path, and no endpoint
\* handler is invoked.
C15_MethodNotAllowed ==
  (PassedGate /\ req.method # "GET") =>
    /\ resp.code = "method_not_allowed"
    /\ resp.status = 405
    /\ ~HandlerInvoked
    /\ handler = "none"
    /\ pc = "returned" => returned = resp

\* a POST to /vehicles/years was answered 405
C15_Witness ==
  /\ req = RouterReq("POST", <<"/", "vehicles", "/", "years">>)
  /\ pc = "returned"
  /\ Happened("checkRateLimit", "allowed")
  /\ returned.status = 405
  /\ returned.code = "method_not_allowed"

\* the documented path patterns, by the segments after /vehicles
Documented(pp) ==
  /\ Len(pp) >= 2
  /\ pp[1] = "vehicles"
  /\ \/ Len(pp) = 2 /\ pp[2] \in {"years", "search", "lookup", "specs", "makes"}
     \/ Len(pp) = 3 /\ pp[2] \in {"vin", "decode"}
     \/ Len(pp) = 3 /\ pp[3] \in {"specs", "warranty", "market-value", "maintenance"}
     \/ Len(pp) = 4 /\ pp[2] = "makes" /\ pp[4] = "models"
     \/ Len(pp) = 6 /\ pp[2] = "makes" /\ pp[4] = "models" /\ pp[6] = "trims"

\* C16 as stated: an authenticated, rate-limit-allowed GET whose path is not
\* one of the documented patterns (a documented path followed by extra
\* segments and /vehicles alone included) is answered not_found with status
\* 404 and no endpoint handler runs.
C16_UnknownPathNotFoundAsClaimed ==
  (PassedGate /\ req.method = "GET" /\ ~Documented(PathParts(req.pathname))) =>
    /\ resp.code = "not_found"
    /\ resp.status = 404
    /\ ~HandlerInvoked

\* C17: the rate-limit check starts only after authentication succeeded, a
\* handler starts only after the rate-limit check allowed the request, and
\* telemetry is emitted only once the handler's response, or the 500 made
\* from its exception, exists; an authentication failure ends the request
\* with an unauthorized response and a rate-limit denial with a 429, in
\* both cases with no handler invoked.
C17_PipelineOrder ==
  /\ \A i \in DOMAIN events :
       /\ events[i].call = "checkRateLimit" =>
            \E j \in 1..(i - 1) : events[j] = Event("authenticateRequest", "valid")
       /\ events[i].call \in HandlerNames =>
            \E j \in 1..(i - 1) : events[j] = Event("checkRateLimit", "allowed")
       /\ events[i].call = "logUsage" =>
            /\ resp # NoResponse
            /\ HandlerInvoked =>
                 \E j \in 1..(i - 1) : /\ events[j].call \in HandlerNames
                                       /\ events[j].outcome \in {"returns", "throws"}
  /\ Happened("authenticateRequest", "invalid") =>
       /\ pc = "returned"
       /\ returned.code = "unauthorized"
       /\ ~HandlerInvoked
       /\ ~Happened("logUsage", "called")
  /\ Happened("checkRateLimit", "denied") =>
       /\ pc = "returned"
       /\ returned.status = 429
       /\ ~HandlerInvoked
       /\ ~Happened("logUsage", "called")

\* a request went through the whole pipeline: authenticated, allowed, its
\* handler threw, the 500 was logged and returned
C17_Witness ==
  /\ pc = "returned"
  /\ Len(events) = 5
  /\ events[1] = Event("authenticateRequest", "valid")
  /\ events[2] = Event("checkRateLimit", "allowed")
  /\ events[3] = Event("handleVinLookup", "invoked")
  /\ events[4] = Event("handleVinLookup", "throws")
  /\ events[5] = Event("logUsage", "called")
  /\ returned.status = 500

\* C18: the response is returned without waiting for the usage-log call to
\* settle, and whether that call later resolves, rejects or never completes
\* neither the status nor the body of the returned response changes.
C18_TelemetryOffCriticalPath ==
  [][/\ (pc = "log" /\ pc' = "returned") =>
          /\ usageLog'.state = "pending"
          /\ returned' = resp
     /\ returned # NoResponse => returned' = returned]_vars

\* a successful response was returned and the usage-log call then rejected
C18_Witness ==
  /\ pc = "returned"
  /\ usageLog.state = "rejected"
  /\ returned = resp
  /\ returned.ok

(***************************************************************************)
(* Endpoints addressed by vehicle id, and the specs search                 *)
(***************************************************************************)
\* the 8-4-4-4-12 text whose every digit is the character c
UuidOf(c) ==
  Repeat(c, 8) \o <<"-">> \o Repeat(c, 4) \o <<"-">> \o Repeat(c, 4) \o <<"-">>
    \o Repeat(c, 4) \o <<"-">> \o Repeat(c, 12)


\* the lengths of the groups of hexadecimal digits of the pattern
UuidGroups == <<8, 4, 4, 4, 12>>

\* s is the groups of hexadecimal digits (either case), joined by hyphens
RECURSIVE MatchesGroups(_, _)
MatchesGroups(s, groups) ==
  LET n == Head(groups)
  IN /\ Len(s) >= n
     /\ \A i \in 1..n : IsHexDigit(s[i])
     /\ IF Tail(groups) = <<>> THEN Len(s) = n
        ELSE /\ Len(s) > n
             /\ s[n + 1] = "-"
             /\ MatchesGroups(SubSeq(s, n + 2, Len(s)), Tail(groups))

\* /^[0-9a-f]{8}-[0-9a-f]{4}-[0-9a-f]{4}-[0-9a-f]{4}-[0-9a-f]{12}$/i.test(id)
IsUuid(id) == MatchesGroups(id, UuidGroups)

\* the id column of a vehicle_specs row, as text
RowDigit == [r \in {"s1", "s2", "s3", "s4", "s5", "s6"} |->
               CASE r = "s1" -> "1" [] r = "s2" -> "2" [] r = "s3" -> "3"
                 [] r = "s4" -> "4" [] r = "s5" -> "5" [] r = "s6" -> "6"]
RowUuid(rid) == UuidOf(RowDigit[rid])

\* vehicle_specs WHERE id = <id>, then .single(): null data (error PGRST116)
\* when no row has the id, the row otherwise
SpecsWithId(rows, id) == SingleResults({r \in rows : RowUuid(r.id) = id})

\* vehicle_warranties WHERE vehicle_spec_id = <id>
WarrantiesWithId(table, id) ==
  SelectSeq(table, LAMBDA w : RowUuid(w.vehicle_spec_id) = id)

\* handleSpecsById: lines 544-552
SpecsByIdResponse(failed, found) ==
  IF failed THEN internalErrorResponse
  ELSE IF found = <<>> THEN notFoundResponse("Vehicle not found")
  ELSE successResponse(found[1])

\* handleWarranty: lines 570-579
WarrantyResponse(failed, rows) ==
  IF failed THEN internalErrorResponse
  ELSE IF rows = <<>>
  THEN notFoundResponse("No warranty information found for this vehicle")
  ELSE successResponse(rows)

\* handleMarketValue / handleMaintenance, lines 589-597 and 649-657: the
\* error of the vehicle_specs query is not read, only its data
AfterVehicleSpecs(found) ==
  IF found = <<>> THEN notFoundResponse("Vehicle not found") ELSE NoResponse

\* the condition parameter: "" when absent or empty (both falsy, line 610)
NoCondition == ""

\* handleMarketValue, lines 599-614: the vehicle_market_values query
MarketValueQuery(sp, condition) ==
  SelectSeq(SelectYmmt(MarketTable, sp.make, sp.model, sp.year, Truthy(sp.trim),
                       IF Truthy(sp.trim) THEN sp.trim ELSE <<>>),
            LAMBDA v : condition = NoCondition \/ v.condition = condition)

\* the miles a vehicle is expected to cover in a year
ExpectedMilesPerYear == 12000

\* NaN, as a value of a response field
NaN == "NaN"

\* the adjustment without the conversion of dollars to cents
MileageAdjustmentNoCents(mileage, year, nowYear) ==
  LET mileageInt == parseInt(mileage)
      expectedMileage == (nowYear - year) * ExpectedMilesPerYear
  IN IF mileageInt = NoNum THEN NoNum
     ELSE Num((5 - (mileageInt[1] - expectedMileage)) \div 10)

\* lines 626-630: Math.round(mileageDiff * -0.10 * 100), NoNum when
\* parseInt(mileage) is NaN
MileageAdjustment(mileage, year, nowYear) ==
  LET mileageInt == parseInt(mileage)
      vehicleAge == nowYear - year
      expectedMileage == vehicleAge * ExpectedMilesPerYear
  IN IF mileageInt = NoNum THEN NoNum
     ELSE Num(0 - (((mileageInt[1] - expectedMileage) * 100) \div 10))

\* the field assigned the adjustment instead of increased by it
AdjustFieldOverwrites(v, adj) ==
  IF v = 0 THEN v ELSE IF adj = NoNum THEN NaN ELSE adj[1]

\* lines 634-636: if (field) field += adjustment
AdjustField(v, adj) ==
  IF v = 0 THEN v ELSE IF adj = NoNum THEN NaN ELSE v + adj[1]

\* lines 632-637
AdjustAll(formatted, adj) ==
  [c \in DOMAIN formatted |->
     [condition |-> formatted[c].condition,
      trade_in_cents |-> AdjustField(formatted[c].trade_in_cents, adj),
      private_party_cents |-> AdjustField(formatted[c].private_party_cents, adj),
      dealer_retail_cents |-> AdjustField(formatted[c].dealer_retail_cents, adj)]]

\* handleMarketValue, lines 616-640
MarketValueResponse(failed, values, sp, mileage, nowYear) ==
  IF failed THEN internalErrorResponse
  ELSE IF Truthy(mileage) /\ sp.year # 0
  THEN successResponse(AdjustAll(formatMarketValues(values),
                                 MileageAdjustment(mileage, sp.year, nowYear)))
  ELSE successResponse(formatMarketValues(values))

\* the schedule of the 2023 CR-V EX-L: more rows than one answer can carry,
\* stored out of mileage order, every row with its own mileage
ManyCount == MaintenanceLimit + MaxOverLimit
ManySchedules ==
  [i \in 1..ManyCount |->
     [year |-> 2023, make |-> StrHonda, model |-> StrCRV, trim |-> StrEXL,
      mileage |-> (((i * 7) % ManyCount) + 1) * 1000, service |-> "oil"]]

\* vehicle_maintenance_schedules as the by-id handlers find it
MaintenanceRows == MaintenanceTable \o ManySchedules

\* the limit applied before the ordering
MaintenanceQueryLimitFirst(sp, currentMileage) ==
  LET matching == SelectYmmt(MaintenanceRows, sp.make, sp.model, sp.year,
                             Truthy(sp.trim),
                             IF Truthy(sp.trim) THEN PrefixPattern(sp.trim) ELSE <<>>)
      upcoming == IF Truthy(currentMileage)
                  THEN SelectSeq(matching,
                                 LAMBDA m : m.mileage >= parseInt(currentMileage)[1])
                  ELSE matching
  IN OrderByMileage(Take(upcoming, MaintenanceLimit))

\* handleMaintenance, lines 659-677: the vehicle_maintenance_schedules query
MaintenanceQuery(sp, currentMileage) ==
  LET matching == SelectYmmt(MaintenanceRows, sp.make, sp.model, sp.year,
                             Truthy(sp.trim),
                             IF Truthy(sp.trim) THEN PrefixPattern(sp.trim) ELSE <<>>)
      upcoming == IF Truthy(currentMileage)
                  THEN SelectSeq(matching,
                                 LAMBDA m : m.mileage >= parseInt(currentMileage)[1])
                  ELSE matching
  IN Take(OrderByMileage(upcoming), MaintenanceLimit)

\* handleMaintenance, lines 679-684
MaintenanceResponse(failed, schedules) ==
  IF failed THEN internalErrorResponse ELSE successResponse(schedules)

\* handleSpecsSearch, line 516: Math.min(parseInt(limit || '50'), 100)
Str50 == <<"5", "0">>
MaxSpecsLimit == 100
SpecsSearchLimit(r) ==
  LET p == parseInt(IF Truthy(r.limit) THEN r.limit ELSE Str50)
  IN IF p = NoNum THEN NoNum ELSE Num(Min(p[1], MaxSpecsLimit))

\* handleSpecsSearch, lines 521-524: the filters given, each an exact match
SpecsSearchMatch(row, r) ==
  /\ Truthy(r.year) => row.year = parseInt(r.year)[1]
  /\ Truthy(r.make) => ilike(row.make, r.make)
  /\ Truthy(r.model) => ilike(row.model, r.model)
  /\ Truthy(r.trim) => ilike(row.trim, r.trim)

\* the orders in which a query without ORDER BY can return a set of rows
Orderings(rows) ==
  {o \in [1..Cardinality(rows) -> rows] :
     \A i, j \in 1..Cardinality(rows) : o[i] = o[j] => i = j}

\* handleSpecsSearch, line 526: the rows the query can return
SpecsSearchQuery(rows, r) ==
  {Take(o, SpecsSearchLimit(r)[1]) :
     o \in Orderings({row \in rows : SpecsSearchMatch(row, r)})}

\* handleSpecsSearch, lines 528-533
SpecsSearchResponse(failed, data) ==
  IF failed THEN internalErrorResponse ELSE successResponse(data)

(***************************************************************************)
(* The handlers addressed by vehicle id, and handleSpecsSearch             *)
(***************************************************************************)
ByIdHandlers == {"specsById", "warranty", "marketValue", "maintenance", "specsSearch"}

\* handleWarranty, lines 556-560: the shape of the id is checked first
handleWarrantyValidate ==
  /\ handler = "warranty"
  /\ pc = "byIdValidate"
  /\ IF IsUuid(req.id)
     THEN pc' = "byIdQuery" /\ resp' = resp
     ELSE /\ pc' = "done"
          /\ resp' = errorResponse("invalid_params", "Vehicle ID must be a valid UUID")
  /\ UNCHANGED <<handler, req, db, views, queries>>
  /\ UNCHANGED <<resolveVars, cacheVars, routerVars>>

\* handleWarranty, lines 565-579
handleWarrantyQuery ==
  /\ handler = "warranty"
  /\ pc = "byIdQuery"
  /\ \E failed \in BOOLEAN :
       /\ Issue("warranties", failed)
       /\ warranties' = IF failed THEN <<>> ELSE WarrantiesWithId(WarrantyTable, req.id)
       /\ resp' = WarrantyResponse(failed, warranties')
  /\ pc' = "done"
  /\ UNCHANGED <<handler, req, db, views, decoded, specs, marketValues, maintenance,
                 fetchCalls, upstream>>
  /\ UNCHANGED <<cacheVars, routerVars>>

\* handleSpecsById, lines 538-552
handleSpecsById ==
  /\ handler = "specsById"
  /\ pc = "byIdSpecs"
  /\ \E failed \in BOOLEAN :
       /\ Issue("specs", failed)
       /\ \E got \in SpecsWithId(db, req.id) :
            specs' = IF failed THEN <<>> ELSE got
       /\ resp' = SpecsByIdResponse(failed, specs')
  /\ pc' = "done"
  /\ UNCHANGED <<handler, req, db, views, decoded, warranties, marketValues, maintenance,
                 fetchCalls, upstream>>
  /\ UNCHANGED <<cacheVars, routerVars>>

\* handleMarketValue, lines 589-597, and handleMaintenance, lines 649-657:
\* the vehicle's row is read first; a failed query leaves the data null
VehicleSpecsQuery ==
  /\ handler \in {"marketValue", "maintenance"}
  /\ pc = "byIdSpecs"
  /\ \E failed \in BOOLEAN :
       /\ Issue("specs", failed)
       /\ \E got \in SpecsWithId(db, req.id) :
            specs' = IF failed THEN <<>> ELSE got
  /\ resp' = AfterVehicleSpecs(specs')
  /\ pc' = IF specs' = <<>> THEN "done" ELSE "byIdQuery"
  /\ UNCHANGED <<handler, req, db, views, decoded, warranties, marketValues, maintenance,
                 fetchCalls, upstream>>
  /\ UNCHANGED <<cacheVars, routerVars>>

\* handleMarketValue, lines 599-640
handleMarketValueQuery ==
  /\ handler = "marketValue"
  /\ pc = "byIdQuery"
  /\ \E failed \in BOOLEAN :
       /\ Issue("marketValues", failed)
       /\ marketValues' = IF failed THEN <<>>
                          ELSE MarketValueQuery(specs[1], req.condition)
       /\ resp' = MarketValueResponse(failed, marketValues', specs[1], req.mileage,
                                      req.nowYear)
  /\ pc' = "done"
  /\ UNCHANGED <<handler, req, db, views, decoded, specs, warranties, maintenance,
                 fetchCalls, upstream>>
  /\ UNCHANGED <<cacheVars, routerVars>>

\* handleMaintenance, lines 659-684
handleMaintenanceQuery ==
  /\ handler = "maintenance"
  /\ pc = "byIdQuery"
  /\ \E failed \in BOOLEAN :
       /\ Issue("maintenance", failed)
       /\ maintenance' = IF failed THEN <<>>
                         ELSE MaintenanceQuery(specs[1], req.current_mileage)
       /\ resp' = MaintenanceResponse(failed, maintenance')
  /\ pc' = "done"
  /\ UNCHANGED <<handler, req, db, views, decoded, specs, warranties, marketValues,
                 fetchCalls, upstream>>
  /\ UNCHANGED <<cacheVars, routerVars>>

\* handleSpecsSearch, lines 518-533; the rows found are kept in result
handleSpecsSearch ==
  /\ handler = "specsSearch"
  /\ pc = "byIdQuery"
  /\ \E failed \in BOOLEAN :
       /\ Issue("specsSearch", failed)
       /\ \E got \in SpecsSearchQuery(db, req) :
            result' = IF failed THEN <<>> ELSE got
       /\ resp' = SpecsSearchResponse(failed, result')
  /\ pc' = "done"
  /\ UNCHANGED <<handler, req, db, views, decoded, specs, warranties, marketValues,
                 maintenance, fetchCalls, upstream>>
  /\ UNCHANGED <<cache, cacheOps, env, populated, routerVars>>

(***************************************************************************)
(* Specification of the by-id handlers                                     *)
(***************************************************************************)
Str12000 == <<"1","2","0","0","0">>
Str24000 == <<"2","4","0","0","0">>
Str2000 == <<"2","0","0","0">>
Str20000 == <<"2","0","0","0","0">>
StrHpercent == <<"h","%">>

\* ids of rows the table can hold, an id no row has in either case, and
\* texts that are not of the 8-4-4-4-12 shape
KnownIds == {UuidOf("1"), UuidOf("2"), UuidOf("3"), UuidOf("4"), UuidOf("5")}
UnknownIds == {UuidOf("9"), UuidOf("A")}
MalformedIds == {StrAbc, UuidOf("g"), UuidOf("1") \o <<"0">>, Tail(UuidOf("1"))}

\* the years new Date().getFullYear() can answer
CurrentYears == {2025, 2026}

ByIdReq(id, condition, mileage, currentMileage, nowYear) ==
  [id |-> id, condition |-> condition, mileage |-> mileage,
   current_mileage |-> currentMileage, nowYear |-> nowYear,
   year |-> Null, make |-> Null, model |-> Null, trim |-> Null, limit |-> Null]

SpecsSearchReq(year, make, model, trimText, limit) ==
  [id |-> Null, condition |-> NoCondition, mileage |-> Null,
   current_mileage |-> Null, nowYear |-> 2025,
   year |-> year, make |-> make, model |-> model, trim |-> trimText, limit |-> limit]

ByIdRequests ==
  {<<h, ByIdReq(id, NoCondition, Null, Null, 2025)>> :
     h \in {"specsById", "warranty"},
     id \in KnownIds \cup UnknownIds \cup MalformedIds}
  \cup {<<"marketValue", ByIdReq(id, c, m, Null, y)>> :
          id \in {UuidOf("1"), UuidOf("2"), UuidOf("4"), UuidOf("9"), StrAbc},
          c \in {NoCondition, "Clean", "Rough", "Excellent"},
          m \in {Null, Str0, Str12000, Str24000, StrAbc},
          y \in CurrentYears}
  \cup {<<"maintenance", ByIdReq(id, NoCondition, Null, cm, 2025)>> :
          id \in {UuidOf("1"), UuidOf("2"), UuidOf("4"), UuidOf("5"), UuidOf("9"),
                  StrAbc},
          cm \in {Null, Str0, Str2000, Str20000}}
  \cup {<<"specsSearch", SpecsSearchReq(y, mk, md, Null, l)>> :
          y \in {Null, Str2024},
          mk \in {Null, StrHondaLower, StrHpercent},
          md \in {Null, StrCRV},
          l \in {Null, Str1}}

\* the handler's first await
ByIdFirstStep(h) ==
  CASE h = "warranty" -> "byIdValidate"
    [] h = "specsSearch" -> "byIdQuery"
    [] OTHER -> "byIdSpecs"

InitById ==
  /\ \E hr \in ByIdRequests :
       /\ handler = hr[1]
       /\ req = hr[2]
       /\ pc = ByIdFirstStep(hr[1])
  /\ db \in Catalogs
  /\ views = db
  /\ decoded = NoDecoded
  /\ specs = <<>>
  /\ warranties = <<>>
  /\ marketValues = <<>>
  /\ maintenance = <<>>
  /\ fetchCalls = 0
  /\ upstream = "none"
  /\ queries = <<>>
  /\ subFailed = {}
  /\ resp = NoResponse
  /\ cache = {}
  /\ populated = NoPopulated
  /\ events = <<>>
  /\ usageLog = NoUsageLog
  /\ returned = NoResponse
  /\ cacheOps = <<>>
  /\ env = EnvUnset
  /\ result = <<>>

NextById ==
  \/ handleWarrantyValidate
  \/ handleWarrantyQuery
  \/ handleSpecsById
  \/ VehicleSpecsQuery
  \/ handleMarketValueQuery
  \/ handleMaintenanceQuery
  \/ handleSpecsSearch

SpecById == InitById /\ [][NextById]_vars

(***************************************************************************)
(* Properties of the by-id handlers                                        *)
(***************************************************************************)
IsByIdHandler == handler \in ByIdHandlers

\* C19: a request whose datastore query failed is answered 500
\* internal_error, never as a client error and never as a success.
C19_DatastoreErrorsAreInternalAsClaimed ==
  (IsByIdHandler /\ pc = "done" /\ subFailed # {})
    => (resp.status = 500 /\ resp.code = "internal_error")

\* the by-id handlers that read the error of every query they issue
ErrorReadingHandlers == {"specsById", "warranty", "specsSearch"}

\* C19, for the handlers that read the error of every query they issue, and
\* for the second query of the other two
C19_ReadErrorsAreInternal ==
  (/\ IsByIdHandler
   /\ pc = "done"
   /\ subFailed # {}
   /\ (handler \in ErrorReadingHandlers \/ "specs" \notin subFailed))
    => (resp.status = 500 /\ resp.code = "internal_error")

\* the market-value request whose vehicle_specs query failed was answered 404
C19_IgnoredSpecsError ==
  /\ handler = "marketValue"
  /\ pc = "done"
  /\ "specs" \in subFailed
  /\ resp.status = 404
  /\ resp.code = "not_found"

\* the vehicle the request names is a row of vehicle_specs
VehicleExists == \E r \in db : RowUuid(r.id) = req.id

\* the dependent query of the request succeeded and found no row
NoDependentRows ==
  /\ pc = "done"
  /\ subFailed = {}
  /\ \/ handler = "warranty" /\ queries = <<"warranties">> /\ warranties = <<>>
     \/ handler = "maintenance" /\ queries = <<"specs", "maintenance">>
          /\ maintenance = <<>>

\* C20: for a well-formed id of an existing vehicle, a warranty or
\* maintenance request that finds zero dependent rows is answered with a
\* success holding an empty collection, and a request whose queries all
\* succeeded is answered not_found only when the vehicle itself is not found.
C20_EmptyDependentDataIsSuccessAsClaimed ==
  /\ (IsUuid(req.id) /\ VehicleExists /\ NoDependentRows)
       => (resp.ok /\ resp.data = <<>>)
  /\ (handler \in {"warranty", "maintenance"} /\ pc = "done" /\ subFailed = {}
        /\ resp.code = "not_found")
       => ~VehicleExists

\* C20 for the maintenance endpoint alone: zero schedule rows of an existing
\* vehicle are a success holding an empty collection
C20_EmptyMaintenanceIsSuccess ==
  (handler = "maintenance" /\ VehicleExists /\ NoDependentRows)
    => (resp.ok /\ resp.data = <<>>)

\* an existing vehicle without maintenance rows was asked for its schedule
C20_EmptyMaintenanceReached ==
  /\ handler = "maintenance"
  /\ VehicleExists
  /\ NoDependentRows
  /\ resp.ok

\* an existing vehicle without warranty rows was answered 404
C20_EmptyWarrantyNotFound ==
  /\ handler = "warranty"
  /\ IsUuid(req.id)
  /\ VehicleExists
  /\ NoDependentRows
  /\ resp.status = 404

(***************************************************************************)
(* Validation before I/O                                                   *)
(***************************************************************************)
\* the conditions a market-value record can carry
ValidConditions == {"Outstanding", "Clean", "Average", "Rough"}

\* the codes of the validation errors
ValidationCodes == {"invalid_vin", "missing_params", "invalid_params"}

\* the handler has called neither the datastore, nor the cache, nor the
\* external decode service
NoIoYet == queries = <<>> /\ cacheOps = <<>> /\ fetchCalls = 0

\* the handler answers the request with one of the validation errors without
\* any call before the answer
RejectedBeforeIo(codes) ==
  /\ NoIoYet
  /\ pc = "done" => (~resp.ok /\ resp.code \in codes)

\* a text made of decimal digits only
IsNumericText(s) == s # <<>> /\ \A i \in DOMAIN s : s[i] \in Range(Digits10)

\* C21, VIN endpoints: a malformed VIN is answered invalid_vin before any call
C21_MalformedVinRejectedFirst ==
  (IsVinHandler /\ ~WellFormedVin(req.vin)) => RejectedBeforeIo({"invalid_vin"})

\* C21, explicit lookup: a missing year, make or model is answered
\* missing_params, and a year parseInt cannot read invalid_params, before
\* any call
C21_LookupParamsRejectedFirst ==
  /\ (handler = "lookup" /\ (~Truthy(req.year) \/ ~Truthy(req.make) \/ ~Truthy(req.model)))
       => RejectedBeforeIo({"missing_params"})
  /\ (handler = "lookup" /\ Truthy(req.year) /\ Truthy(req.make) /\ Truthy(req.model)
        /\ parseInt(req.year) = NoNum)
       => RejectedBeforeIo({"invalid_params"})

\* C21, market value: a condition outside the four conditions is answered
\* with a validation error before any call
C21_ConditionRejectedFirst ==
  (handler = "marketValue" /\ req.condition # NoCondition
     /\ req.condition \notin ValidConditions)
    => RejectedBeforeIo(ValidationCodes)

\* C21: a malformed VIN, a missing required parameter of the lookup, a
\* non-numeric year and a condition outside {Outstanding, Clean, Average,
\* Rough} are each answered with a validation error code, and the handler
\* issues no datastore, cache or upstream call before answering.
C21_ValidationBeforeIoAsClaimed ==
  /\ C21_MalformedVinRejectedFirst
  /\ C21_LookupParamsRejectedFirst
  /\ C21_ConditionRejectedFirst

\* a market-value request with a condition outside the four conditions was
\* answered with a success after two datastore queries
C21_BadConditionAnswered ==
  /\ handler = "marketValue"
  /\ req.condition = "Excellent"
  /\ pc = "done"
  /\ queries = <<"specs", "marketValues">>
  /\ resp.ok

\* the explicit lookup read a year with trailing letters as a number and
\* queried the datastore
C21_YearWithLettersAccepted ==
  /\ handler = "lookup"
  /\ ~IsNumericText(req.year)
  /\ Truthy(req.year)
  /\ queries # <<>>

(***************************************************************************)
(* Mileage adjustment of the market values                                 *)
(***************************************************************************)
ValueFields == {"trade_in_cents", "private_party_cents", "dealer_retail_cents"}

\* a market-value request that supplied a mileage was answered with the map
MileageAnswered ==
  /\ handler = "marketValue"
  /\ pc = "done"
  /\ resp.ok
  /\ Truthy(req.mileage)

\* the map before the adjustment
Unadjusted == formatMarketValues(marketValues)

\* the miles the vehicle of the request is expected to have covered
ExpectedMileage == (req.nowYear - specs[1].year) * 12000

\* the supplied mileage minus the expected one, when the mileage is a number
MileageDiff == parseInt(req.mileage)[1] - ExpectedMileage

\* Math.round(x / 10) for an integer x: the nearest integer, halves upwards
RoundTenth(x) == (x + 5) \div 10

\* every nonzero field of every condition of the answer is the unadjusted
\* field plus amount, and every zero field is left at zero
AddedToEveryField(amount) ==
  /\ DOMAIN resp.data = DOMAIN Unadjusted
  /\ \A c \in DOMAIN Unadjusted : \A f \in ValueFields :
       resp.data[c][f] = IF Unadjusted[c][f] = 0 THEN 0 ELSE Unadjusted[c][f] + amount

\* C22 as stated: the amount added to each field is
\* round((actual_mileage - expected_mileage) * -0.10) cents
C22_AdjustmentAsClaimed ==
  (MileageAnswered /\ parseInt(req.mileage) # NoNum)
    => \A c \in DOMAIN Unadjusted : \A f \in ValueFields :
         resp.data[c][f] = Unadjusted[c][f] + RoundTenth(0 - MileageDiff)

\* C22, amended: when the supplied mileage reads as a number, the amount
\* added to each nonzero value field, in cents, is
\* round((actual_mileage - expected_mileage) * -0.10 * 100), ten cents a
\* mile, with expected_mileage = (current_year - vehicle_year) * 12000; the
\* same amount is added to the three fields of every condition of the map,
\* it is negative when the mileage exceeds the expected one and positive when
\* it is below, and a zero field stays zero.
C22_AdjustmentTenCentsAMile ==
  (MileageAnswered /\ parseInt(req.mileage) # NoNum)
    => /\ AddedToEveryField(0 - 10 * MileageDiff)
       /\ MileageDiff > 0 => (0 - 10 * MileageDiff) < 0
       /\ MileageDiff < 0 => (0 - 10 * MileageDiff) > 0

\* C22 witness: 24000 miles on a one-year-old vehicle took 120000 cents off
\* the nonzero fields of a two-condition map and left the zero field alone
C22_Witness ==
  /\ MileageAnswered
  /\ req.mileage = Str24000
  /\ MileageDiff = 12000
  /\ Cardinality(DOMAIN resp.data) = 2
  /\ resp.data["Clean"].trade_in_cents = Unadjusted["Clean"].trade_in_cents - 120000
  /\ resp.data["Rough"].trade_in_cents = 0
  /\ resp.data["Rough"].private_party_cents = 20 - 120000

\* C23: when the supplied mileage equals the expected mileage,
\* (current_year - vehicle_year) * 12000, every value field of every
\* condition of the answer equals the unadjusted value, the one answered
\* when no mileage is supplied.
C23_BreakEvenIsZero ==
  (MileageAnswered /\ parseInt(req.mileage) # NoNum /\ MileageDiff = 0)
    => /\ resp.data = Unadjusted
       /\ resp = MarketValueResponse(FALSE, marketValues, specs[1], Null, req.nowYear)

\* C23 witness: 12000 miles on a one-year-old vehicle, answered with a map
\* of two conditions
C23_Witness ==
  /\ MileageAnswered
  /\ req.mileage = Str12000
  /\ MileageDiff = 0
  /\ Cardinality(DOMAIN resp.data) = 2
  /\ resp.data["Clean"].trade_in_cents = 110

(***************************************************************************)
(* Maintenance selection                                                   *)
(***************************************************************************)
\* a maintenance request was answered with its schedule
MaintenanceAnswered == handler = "maintenance" /\ pc = "done" /\ resp.ok

\* the positions of the table's rows that qualify for the request: rows of
\* the vehicle, at or beyond current_mileage when it is given
Qualifying ==
  {i \in DOMAIN MaintenanceRows :
     /\ YmmtMatch(MaintenanceRows[i], specs[1].make, specs[1].model, specs[1].year,
                  Truthy(specs[1].trim),
                  IF Truthy(specs[1].trim) THEN specs[1].trim \o <<"%">> ELSE <<>>)
     /\ Truthy(req.current_mileage) =>
          MaintenanceRows[i].mileage >= parseInt(req.current_mileage)[1]}

Returned == {resp.data[k] : k \in DOMAIN resp.data}

\* C24: the maintenance endpoint returns items in ascending mileage order,
\* at most 50 of them; with current_mileage every returned item is at or
\* beyond it; and when more than 50 rows qualify the 50 returned are the
\* qualifying rows of lowest mileage.
C24_MaintenanceSelection ==
  MaintenanceAnswered =>
    /\ \A i, j \in DOMAIN resp.data :
         i < j => resp.data[i].mileage <= resp.data[j].mileage
    /\ Len(resp.data) <= 50
    /\ Truthy(req.current_mileage) =>
         \A k \in DOMAIN resp.data :
           resp.data[k].mileage >= parseInt(req.current_mileage)[1]
    /\ Returned \subseteq {MaintenanceRows[i] : i \in Qualifying}
    /\ Len(resp.data) = Min(Cardinality(Qualifying), 50)
    /\ \A i \in Qualifying :
         MaintenanceRows[i] \notin Returned =>
           \A k \in DOMAIN resp.data :
             resp.data[k].mileage <= MaintenanceRows[i].mileage

\* C24 witness: 51 rows qualify at current_mileage=2000 and the 50 of
\* lowest mileage are answered, from 2000 to 51000 miles
C24_Witness ==
  /\ MaintenanceAnswered
  /\ req.current_mileage = Str2000
  /\ Cardinality(Qualifying) > 50
  /\ Len(resp.data) = 50
  /\ resp.data[1].mileage = 2000
  /\ resp.data[50].mileage = 51000

(***************************************************************************)
(* Models list                                                             *)
(***************************************************************************)
\* the models endpoint answered with a list
ModelsAnswered == handler = "models" /\ pc = "done" /\ resp.ok

NoRepeats(list) == \A i, j \in DOMAIN list : list[i] = list[j] => i = j
Ascending(list) ==
  \A i, j \in DOMAIN list : i < j => (list[i] = list[j] \/ StrLess(list[i], list[j]))

\* C25: the models list of a make, with or without a year, from the view or
\* from the table, holds no model name twice and is in ascending order,
\* whatever the catalog holds, makes written in different letter case
\* included.
C25_ModelsDistinctSortedAsClaimed ==
  ModelsAnswered => (NoRepeats(resp.data) /\ Ascending(resp.data))

\* C25 without the year on the view path: the list is in ascending order
\* always, and free of repeats whenever it was not read off the view's rows
\* of one year
C25_ModelsSortedAndDistinctElsewhere ==
  ModelsAnswered =>
    /\ Ascending(resp.data)
    /\ (~Truthy(req.year) \/ TableQueried) => NoRepeats(resp.data)

\* a models request with a year was answered with the same model twice
C25_RepeatedModel ==
  /\ ModelsAnswered
  /\ Truthy(req.year)
  /\ Len(resp.data) = 2
  /\ resp.data[1] = resp.data[2]

(***************************************************************************)
(* formatMarketValues on its own                                           *)
(***************************************************************************)
\* rows of vehicle_market_values as select('*') returns them
ValuePool ==
  { [id |-> "m1", condition |-> "Clean", trade_in_cents |-> 100,
     private_party_cents |-> 200, dealer_retail_cents |-> 300],
    [id |-> "m2", condition |-> "Clean", trade_in_cents |-> 110,
     private_party_cents |-> 210, dealer_retail_cents |-> 310],
    [id |-> "m3", condition |-> "Rough", trade_in_cents |-> 0,
     private_party_cents |-> 20, dealer_retail_cents |-> 30],
    [id |-> "m4", condition |-> "Rough", trade_in_cents |-> 10,
     private_party_cents |-> 25, dealer_retail_cents |-> 35] }

\* sequences of 0..MaxValues records
ValueSeqs == UNION {[1..n -> ValuePool] : n \in 0..MaxValues}

Format ==
  /\ handler = "format"
  /\ pc = "format"
  /\ result' = formatMarketValues(marketValues)
  /\ pc' = "done"
  /\ UNCHANGED <<handler, req, db, views, queries, resp, cache, cacheOps, env, populated,
                 resolveVars, routerVars>>

InitFormat ==
  /\ handler = "format"
  /\ pc = "format"
  /\ marketValues \in ValueSeqs
  /\ req = Null
  /\ db = {}
  /\ views = db
  /\ decoded = NoDecoded
  /\ specs = <<>>
  /\ warranties = <<>>
  /\ maintenance = <<>>
  /\ fetchCalls = 0
  /\ upstream = "none"
  /\ queries = <<>>
  /\ subFailed = {}
  /\ resp = NoResponse
  /\ cache = {}
  /\ populated = NoPopulated
  /\ events = <<>>
  /\ usageLog = NoUsageLog
  /\ returned = NoResponse
  /\ cacheOps = <<>>
  /\ env = EnvUnset
  /\ result = <<>>

NextFormat == Format

SpecFormat == InitFormat /\ [][NextFormat]_vars

\* C26: the map has exactly one entry per condition of the input, and the
\* entry of a condition carries the three value fields of the last input
\* record with that condition.
C26_LastRecordWins ==
  (handler = "format" /\ pc = "done") =>
    /\ DOMAIN result = {marketValues[i].condition : i \in DOMAIN marketValues}
    /\ \A i \in DOMAIN marketValues :
         (\A j \in DOMAIN marketValues : j > i =>
            marketValues[j].condition # marketValues[i].condition)
         => /\ result[marketValues[i].condition].trade_in_cents
                 = marketValues[i].trade_in_cents
            /\ result[marketValues[i].condition].private_party_cents
                 = marketValues[i].private_party_cents
            /\ result[marketValues[i].condition].dealer_retail_cents
                 = marketValues[i].dealer_retail_cents

\* C26 witness: two Clean records around a Rough one; the map has two
\* entries and Clean carries the fields of the third record
C26_Witness ==
  /\ handler = "format"
  /\ pc = "done"
  /\ Len(marketValues) = 3
  /\ marketValues[1].id = "m1"
  /\ marketValues[2].condition = "Rough"
  /\ marketValues[3].id = "m2"
  /\ Cardinality(DOMAIN result) = 2
  /\ result["Clean"].trade_in_cents = 110

(***************************************************************************)
(* Search fallback                                                         *)
(***************************************************************************)
\* the search answered from its query on vehicle_specs
FallbackAnswered ==
  /\ handler = "search"
  /\ pc = "done"
  /\ resp.ok
  /\ TableQueried

\* the rows the request's query on vehicle_specs returned
FetchedRows == SearchFetched(db, req, RankOf(env.rank))

\* the position in the fetched rows of the first row of a record's combination
FirstFetched(rec) ==
  CHOOSE i \in DOMAIN FetchedRows :
    /\ SameCombination(FetchedRows[i], rec)
    /\ \A j \in 1..(i - 1) : ~SameCombination(FetchedRows[j], rec)

\* C27: on the fallback path the result holds no two records of the same
\* (year, make, model), keeps the records in the order their first
\* occurrence has in the fetched rows, and holds at most limit records,
\* limit being at most 50.
C27_FallbackDedupes ==
  FallbackAnswered =>
    /\ \A i, j \in DOMAIN resp.data :
         SameCombination(resp.data[i], resp.data[j]) => i = j
    /\ \A k \in DOMAIN resp.data :
         \E i \in DOMAIN FetchedRows : SameCombination(FetchedRows[i], resp.data[k])
    /\ \A k, l \in DOMAIN resp.data :
         k < l => FirstFetched(resp.data[k]) < FirstFetched(resp.data[l])
    /\ Len(resp.data) <= SearchLimit(req)[1]
    /\ SearchLimit(req)[1] <= 50

\* C27 witness: two rows of one combination were fetched and one record
\* answered
C27_Witness ==
  /\ FallbackAnswered
  /\ Len(FetchedRows) = 2
  /\ SameCombination(FetchedRows[1], FetchedRows[2])
  /\ Len(resp.data) = 1

\* the limit cut the fallback's result: two combinations fetched, one answered
C27_LimitReached ==
  /\ FallbackAnswered
  /\ Len(FetchedRows) = 2
  /\ ~SameCombination(FetchedRows[1], FetchedRows[2])
  /\ Len(resp.data) = 1

(***************************************************************************)
(* The two paths of the search over one catalog                            *)
(***************************************************************************)
Str2 == <<"2">>
Str2024AccordLower == <<"2","0","2","4"," ","a","c","c","o","r","d">>

\* six trims of the 2024 Honda Accord and one 2024 Honda CR-V
PathPool ==
  { [id |-> "p1", year |-> 2024, make |-> StrHonda, model |-> StrAccord,
     trim |-> <<"T","1">>, sample_vin |-> Null],
    [id |-> "p2", year |-> 2024, make |-> StrHonda, model |-> StrAccord,
     trim |-> <<"T","2">>, sample_vin |-> Null],
    [id |-> "p3", year |-> 2024, make |-> StrHonda, model |-> StrAccord,
     trim |-> <<"T","3">>, sample_vin |-> Null],
    [id |-> "p4", year |-> 2024, make |-> StrHonda, model |-> StrAccord,
     trim |-> <<"T","4">>, sample_vin |-> Null],
    [id |-> "p5", year |-> 2024, make |-> StrHonda, model |-> StrAccord,
     trim |-> <<"T","5">>, sample_vin |-> Null],
    [id |-> "p6", year |-> 2024, make |-> StrHonda, model |-> StrAccord,
     trim |-> <<"T","6">>, sample_vin |-> Null],
    [id |-> "p7", year |-> 2024, make |-> StrHonda, model |-> StrCRV,
     trim |-> StrLX, sample_vin |-> BaseVin] }
PathOrder == <<"p1", "p2", "p3", "p4", "p5", "p6", "p7">>

\* the ranks the store may give rows of one combination: by id, either way
PathRank(name) ==
  IF name = "idDesc"
  THEN [i \in Range(PathOrder) |-> Len(PathOrder) + 1 - IndexIn(i, PathOrder)]
  ELSE [i \in Range(PathOrder) |-> IndexIn(i, PathOrder)]

\* the searches run over both paths
PathRequests ==
  { CacheReq(Null, Null, Null, StrHondaLower, Null, Str2),
    CacheReq(Null, Null, Null, StrHondaLower, Null, Str1),
    CacheReq(Null, Null, Null, Str2024AccordLower, Null, Null),
    CacheReq(Null, Null, Null, Str20, Null, Null) }

NoPaths == [view |-> <<>>, table |-> <<>>]

\* lines 982-1012: the query on vehicle_autocomplete
PathView ==
  /\ handler = "searchPaths"
  /\ pc = "view"
  /\ \E rk \in RankNames :
       result' = [result EXCEPT !.view = SearchFromView(views, req, PathRank(rk))]
  /\ pc' = "table"
  /\ UNCHANGED <<handler, req, db, views, queries, resp, cache, cacheOps, env, populated,
                 resolveVars, routerVars>>

\* lines 1021-1068: the query on vehicle_specs and the deduplication
PathTable ==
  /\ handler = "searchPaths"
  /\ pc = "table"
  /\ \E rk \in RankNames :
       result' = [result EXCEPT !.table = SearchFromTable(db, req, PathRank(rk))]
  /\ pc' = "done"
  /\ UNCHANGED <<handler, req, db, views, queries, resp, cache, cacheOps, env, populated,
                 resolveVars, routerVars>>

InitPaths ==
  /\ handler = "searchPaths"
  /\ pc = "view"
  /\ req \in PathRequests
  /\ db \in SUBSET PathPool
  /\ views = db
  /\ result = NoPaths
  /\ decoded = NoDecoded
  /\ specs = <<>>
  /\ warranties = <<>>
  /\ marketValues = <<>>
  /\ maintenance = <<>>
  /\ fetchCalls = 0
  /\ upstream = "none"
  /\ queries = <<>>
  /\ subFailed = {}
  /\ resp = NoResponse
  /\ cache = {}
  /\ populated = NoPopulated
  /\ events = <<>>
  /\ usageLog = NoUsageLog
  /\ returned = NoResponse
  /\ cacheOps = <<>>
  /\ env = EnvUnset

NextPaths == PathView \/ PathTable

SpecPaths == InitPaths /\ [][NextPaths]_vars

\* the (year, make, model) records of a result
Combinations(list) ==
  [k \in DOMAIN list |-> <<list[k].year, list[k].make, list[k].model>>]

\* both paths have answered
PathsAnswered == handler = "searchPaths" /\ pc = "done"

\* the number of (year, make, model) combinations of the catalog whose
\* make or model holds every text token, of the year asked for
MatchingCombinations ==
  Cardinality({<<x.year, x.make, x.model>> :
                 x \in {y \in db : /\ YearFilterOk(y.year, YearFilter(Tokens(req)))
                                   /\ MatchesAnyColumn(y, TextTokens(Tokens(req)))}})

\* C29: for the same catalog, query and limit the fallback path over the
\* table answers the same sequence of (year, make, model) records as the
\* primary path over the view, and exactly limit records when at least limit
\* combinations match.
C29_FallbackEqualsPrimaryAsClaimed ==
  PathsAnswered =>
    /\ Combinations(result.table) = Combinations(result.view)
    /\ MatchingCombinations >= SearchLimit(req)[1] =>
         Len(result.table) = SearchLimit(req)[1]

\* the two paths agree while the text tokens hold letters only and no more
\* than three rows match
C29_PathsAgreeOnSmallCatalogs ==
  (/\ PathsAnswered
   /\ req.q # Str20
   /\ Cardinality(db) <= FallbackOverfetch)
    => Combinations(result.table) = Combinations(result.view)

\* the query 20 is answered with nothing from the table while the view
\* answers a record
C29_TokenMatchesYearText ==
  /\ PathsAnswered
  /\ req.q = Str20
  /\ result.table = <<>>
  /\ result.view # <<>>

\* six rows of one combination fill the rows fetched under limit=2: the
\* fallback answers one record and the view two
C29_OverfetchTooShort ==
  /\ PathsAnswered
  /\ req.limit = Str2
  /\ MatchingCombinations = 2
  /\ Len(result.view) = 2
  /\ Len(result.table) = 1

(***************************************************************************)
(* Cache frame                                                             *)
(***************************************************************************)
CacheKeys(store) == {e.key : e \in store}
SetOps == {i \in DOMAIN cacheOps : cacheOps[i].op = "set"}
GetOps == {i \in DOMAIN cacheOps : cacheOps[i].op = "get"}

\* the cache operations of the request so far: one read of the request's
\* key first, no write after a hit, and at most one write, of the same key
OneReadThenOneWrite ==
  /\ \A i \in GetOps : i = 1 /\ cacheOps[i].key = CacheKey(handler, req)
  /\ Cardinality(SetOps) <= 1
  /\ \A i \in SetOps :
       /\ i = 2
       /\ cacheOps[1].op = "get"
       /\ cacheOps[1].outcome # "hit"
       /\ cacheOps[i].key = cacheOps[1].key

\* a step of a handler leaves every entry of another key as it is and
\* removes no key; only the write step changes the store
FrameStep ==
  \/ cache' = cache
  \/ LET key == CacheKey(handler, req)
     IN /\ pc = "cacheWrite"
        /\ Len(cacheOps') = 2
        /\ CacheKeys(cache) \subseteq CacheKeys(cache')
        /\ \A e \in cache : e.key # key => e \in cache'
        /\ \A e \in cache' : e.key # key => e \in cache

\* C30: no handler step deletes a cache key; a request served from the cache
\* writes nothing, so a hit leaves the entry and its TTL as they are; and a
\* request that writes writes one key, the key it read without a hit, and
\* leaves the entries of every other key unchanged.
C30_CacheFrame ==
  [][/\ (cache' # cache /\ IsCachedHandler /\ pc # "done") => FrameStep
     /\ (cacheOps' # cacheOps /\ IsCachedHandler') => OneReadThenOneWrite']_vars

\* C30 witness: a request wrote its key while the store held the entry of
\* another key, and both entries are there
C30_Witness ==
  /\ IsCachedHandler
  /\ pc = "done"
  /\ Len(cacheOps) = 2
  /\ cacheOps[2].op = "set"
  /\ cacheOps[2].outcome = "ok"
  /\ Cardinality(CacheKeys(cache)) = 2
  /\ CacheKey(handler, req) \in CacheKeys(cache)

\* a request was served from the cache and the store holds what it held
C30_HitWritesNothing ==
  /\ IsCachedHandler
  /\ pc = "done"
  /\ Len(cacheOps) = 1
  /\ cacheOps[1].outcome = "hit"

(***************************************************************************)
(* Concurrent requests for one cache key                                   *)
(***************************************************************************)
\* In this specification pc, result and resp are functions of the request,
\* handler and req are the ones all the requests share, and cacheOps is the
\* set of the writes the store has accepted. Every await of a handler is one
\* step; redis.get and redis.set are single operations of the store.
Requests == 1..MaxRequests

\* the text handed to redis.set of a half-built result
WriteValueFirstOnly(h, computed) == Stringify(h, Take(computed, 1))
\* JSON.stringify(result), the text handed to redis.set
WriteValue(h, computed) == Stringify(h, computed)

\* a write the store accepted
Written(p, key, value) == [by |-> p, key |-> key, value |-> value]

ConcurrentRead(p) ==
  /\ pc[p] = "cacheRead"
  /\ \E outcome \in {"ok", "throws"}, auto \in BOOLEAN :
       LET cached == ClientGet(CacheGet(cache, CacheKey(handler, req)), auto)
           hit == outcome = "ok" /\ CachedTruthy(cached)
       IN /\ resp' = [resp EXCEPT ![p] = IF hit THEN successResponse(CachedValue(cached))
                                         ELSE @]
          /\ pc' = [pc EXCEPT ![p] = AfterCacheRead(handler, hit)]
  /\ UNCHANGED <<handler, req, db, views, queries, cache, cacheOps, env, result, populated,
                 resolveVars, routerVars>>

ConcurrentView(p) ==
  /\ pc[p] = "view"
  /\ \E status \in {"ok", "missing", "error"}, rk \in RanksFor(handler) :
       IF status = "ok"
       THEN /\ result' = [result EXCEPT ![p] = ViewResult(handler, views, req, rk)]
            /\ pc' = [pc EXCEPT ![p] = "cacheWrite"]
            /\ resp' = resp
       ELSE IF FallsBack(handler, status)
       THEN /\ pc' = [pc EXCEPT ![p] = "table"]
            /\ UNCHANGED <<result, resp>>
       ELSE /\ resp' = [resp EXCEPT ![p] = internalErrorResponse]
            /\ pc' = [pc EXCEPT ![p] = "done"]
            /\ result' = result
  /\ UNCHANGED <<handler, req, db, views, queries, cache, cacheOps, env, populated,
                 resolveVars, routerVars>>

ConcurrentTable(p) ==
  /\ pc[p] = "table"
  /\ \E status \in {"ok", "error"}, rk \in RanksFor(handler) :
       IF status = "error"
       THEN /\ resp' = [resp EXCEPT ![p] = internalErrorResponse]
            /\ pc' = [pc EXCEPT ![p] = "done"]
            /\ result' = result
       ELSE /\ result' = [result EXCEPT ![p] = TableResult(handler, db, req, rk)]
            /\ pc' = [pc EXCEPT ![p] = AfterTable(handler)]
            /\ resp' = resp
  /\ UNCHANGED <<handler, req, db, views, queries, cache, cacheOps, env, populated,
                 resolveVars, routerVars>>

ConcurrentWrite(p) ==
  /\ pc[p] = "cacheWrite"
  /\ \E outcome \in {"ok", "throws"} :
       LET key == CacheKey(handler, req)
           value == WriteValue(handler, result[p])
       IN /\ cache' = IF outcome = "ok"
                      THEN CacheSet(cache, key, value, CacheTtl(handler))
                      ELSE cache
          /\ cacheOps' = IF outcome = "ok"
                         THEN cacheOps \cup {Written(p, key, value)}
                         ELSE cacheOps
          /\ resp' = [resp EXCEPT ![p] = CacheWriteResponse(result[p], outcome)]
          /\ pc' = [pc EXCEPT ![p] = "done"]
  /\ UNCHANGED <<handler, req, db, views, queries, env, result, populated, resolveVars,
                 routerVars>>

\* the catalogs the concurrent requests run over: one make, and the same
\* make in two spellings
ConcurrentCatalogs ==
  { {x \in SpecRowPool : x.id = "s1"}, {x \in SpecRowPool : x.id \in {"s1", "s6"}} }

\* vehicle_specs changes while the requests run; the materialized views keep
\* the rows of their last refresh
CatalogChanges ==
  /\ \E p \in Requests : pc[p] # "done"
  /\ db' \in ConcurrentCatalogs \ {db}
  /\ UNCHANGED <<handler, pc, req, views, queries, resp, cache, cacheOps, env, result,
                 populated, resolveVars, routerVars>>

\* refresh_vehicle_views(): the views are rebuilt from vehicle_specs
RefreshVehicleViews ==
  /\ \E p \in Requests : pc[p] # "done"
  /\ views # db
  /\ views' = db
  /\ UNCHANGED <<handler, pc, req, db, queries, resp, cache, cacheOps, env, result,
                 populated, resolveVars, routerVars>>

\* the store drops the entry when its TTL has run out
ConcurrentExpire ==
  /\ \E p \in Requests : pc[p] # "done"
  /\ \E e \in cache : cache' = cache \ {e}
  /\ UNCHANGED <<handler, pc, req, db, views, queries, resp, cacheOps, env, result,
                 populated, resolveVars, routerVars>>

\* the requests that share a key
ConcurrentRequests ==
  { <<"makes", CacheReq(Null, Null, Null, Null, Null, Null)>>,
    <<"search", CacheReq(Null, Null, Null, StrHondaQuery, Null, Null)>> }

InitConcurrent ==
  /\ \E hr \in ConcurrentRequests :
       /\ handler = hr[1]
       /\ req = hr[2]
  /\ pc = [p \in Requests |-> "cacheRead"]
  /\ result = [p \in Requests |-> <<>>]
  /\ resp = [p \in Requests |-> NoResponse]
  /\ db \in ConcurrentCatalogs
  /\ views \in ConcurrentCatalogs
  /\ decoded = NoDecoded
  /\ specs = <<>>
  /\ warranties = <<>>
  /\ marketValues = <<>>
  /\ maintenance = <<>>
  /\ fetchCalls = 0
  /\ upstream = "none"
  /\ queries = <<>>
  /\ subFailed = {}
  /\ cache = {}
  /\ populated = NoPopulated
  /\ events = <<>>
  /\ usageLog = NoUsageLog
  /\ returned = NoResponse
  /\ cacheOps = {}
  /\ env = EnvUnset

NextConcurrent ==
  \/ \E p \in Requests : ConcurrentRead(p)
  \/ \E p \in Requests : ConcurrentView(p)
  \/ \E p \in Requests : ConcurrentTable(p)
  \/ \E p \in Requests : ConcurrentWrite(p)
  \/ CatalogChanges
  \/ RefreshVehicleViews
  \/ ConcurrentExpire

SpecConcurrent == InitConcurrent /\ [][NextConcurrent]_vars

\* the request computed a result of its own: it reached the write
Computed(p) == \E w \in cacheOps : w.by = p

\* C28: under every interleaving of the requests for one key, every value
\* the store ever accepted under the key, and so the value it holds, is the
\* complete serialization of the full result one request computed, and every
\* successful response carries either a value the store accepted or the
\* result the responding request computed itself.
C28_WholeValuesOnly ==
  /\ \A w \in cacheOps :
       /\ w.key = CacheKey(handler, req)
       /\ w.value = Stringify(handler, result[w.by])
       /\ JsonParse(w.value) = result[w.by]
  /\ \A e \in cache : \E w \in cacheOps : e.key = w.key /\ e.value = w.value
  /\ \A p \in Requests :
       (pc[p] = "done" /\ resp[p].ok) =>
          \/ resp[p].data = result[p]
          \/ \E w \in cacheOps : resp[p].data = JsonParse(w.value)

\* C28 witness: two requests missed at once, computed different results while
\* the catalog changed or the views were refreshed in between, and both wrote; the store holds one of
\* the two values and each request answered its own result
C28_Witness ==
  /\ \A p \in {1, 2} : pc[p] = "done" /\ resp[p].ok /\ Computed(p)
  /\ result[1] # result[2]
  /\ Len(result[1]) = 2
  /\ resp[1].data = result[1]
  /\ resp[2].data = result[2]
  /\ \E e \in cache : e.value = Stringify(handler, result[2])
====
